---- MODULE Spec2Model ----
(***************************************************************************)
(* typed-gql/analyzer: analyzeSchema, the semantic analyzer that folds an  *)
(* ordered Document of GraphQL type-system definitions and extensions into *)
(* one Schema or one Error.                                                *)
(*                                                                         *)
(* Two complete revisions of the module are modelled side by side:         *)
(*   "inline"  - src/src/index.ts, schema() with one nested switch;        *)
(*   "context" - src/unnamed/part_000 (lines 288-1224), schema() passing a *)
(*               SchemaContext to one function per case.                   *)
(* The variable rev says which revision a behaviour runs.  The two differ  *)
(* in the schema-extension case, the executable case and the final return; *)
(* every other operator below is the same code in both files.              *)
(*                                                                         *)
(* Conventions.  A JS object used as a map is a function whose DOMAIN is   *)
(* its own keys; `if (m[k])` is Truthy(m, k), which also answers for the   *)
(* keys every `{}` inherits from Object.prototype.  A message is the       *)
(* sequence of the pieces of its template literal (literal chunks and      *)
(* interpolated values, in order).  `x | undefined` is an option record.   *)
(***************************************************************************)
EXTENDS Naturals, Sequences, FiniteSets, TLC

\* Longest document analysed.
MaxDoc == 3

\* Longest list given to a normalizer called on its own.
MaxList == 3

(***************************************************************************)
(* JavaScript values                                                       *)
(***************************************************************************)
\* The value undefined where a string may stand (description, map slot).
Undefined == "<undefined>"

\* `${v}` in a template literal: undefined is rendered as "undefined".
Str(v) == IF v = Undefined THEN "undefined" ELSE v

\* T | undefined for lists and maps.
None == [some |-> FALSE]
Some(v) == [some |-> TRUE, val |-> v]
\* o ?? d
OrElse(o, d) == IF o.some THEN o.val ELSE d

\* Keys that `{}` answers to without owning them (Object.prototype).
ObjectPrototypeKeys ==
  {"constructor", "hasOwnProperty", "isPrototypeOf", "propertyIsEnumerable",
   "toLocaleString", "toString", "valueOf", "__proto__",
   "__defineGetter__", "__defineSetter__", "__lookupGetter__", "__lookupSetter__"}

\* `{}`
EmptyMap == [k \in {} |-> Undefined]

\* if (m[k]) on a map whose own values are objects (always truthy).
Truthy(m, k) == k \in DOMAIN m \/ k \in ObjectPrototypeKeys

\* What m[k] yields for a key m does not own but inherits: a function or
\* Object.prototype, whose .type is undefined.
Inherited == [type |-> Undefined]

\* m[k] read as a TypeDefinition (only called when Truthy(m, k)).
Get(m, k) == IF k \in DOMAIN m THEN m[k] ELSE Inherited

\* m[k] = v
Put(m, k, v) == [x \in DOMAIN m \cup {k} |-> IF x = k THEN v ELSE m[x]]

\* new Set(strs)
SetOf(strs) == {strs[k] : k \in 1..Len(strs)}

(***************************************************************************)
(* Error | T                                                               *)
(***************************************************************************)
\* { isError: true, message }
Err(message) == [isError |-> TRUE, message |-> message]
\* A value that is not an Error.
Ok(v) == [isError |-> FALSE, val |-> v]
\* An Error raised after an object was already mutated in place: val is the
\* object as the failure leaves it.
ErrAt(message, v) == [isError |-> TRUE, message |-> message, val |-> v]

(***************************************************************************)
(* Normalizers                                                             *)
(***************************************************************************)
\* unwrap(r), then the rest K of the function: an Error ends the function.
Then(r, K(_)) == IF r.isError THEN r ELSE K(r.val)

\* The same in a function that mutates obj in place: the Error leaves obj as
\* it is at that point.
ThenAt(r, obj, K(_)) == IF r.isError THEN ErrAt(r.message, obj) ELSE K(r.val)

\* The loop of directive(): one Argument per name, a repeat is an Error.
RECURSIVE directiveLoop(_, _, _, _, _)
directiveLoop(arguments, k, args, dname, on) ==
  IF k > Len(arguments) THEN Ok(args)
  ELSE IF Truthy(args, arguments[k].name)
  THEN Err(<<"Multiple argument ", arguments[k].name, " on directive ", dname, " on ">>
             \o on)
  ELSE directiveLoop(arguments, k + 1,
                     Put(args, arguments[k].name,
                         [name |-> arguments[k].name, value |-> arguments[k].value]),
                     dname, on)

directive(d, on) ==
  Then(directiveLoop(OrElse(d.arguments, <<>>), 1, EmptyMap, d.name, on),
       LAMBDA args : Ok([name |-> d.name, arguments |-> args]))

\* (directives ?? []).map((d) => unwrap(directive(d, on)))
RECURSIVE directivesMap(_, _, _, _)
directivesMap(ds, k, acc, on) ==
  IF k > Len(ds) THEN Ok(acc)
  ELSE Then(directive(ds[k], on),
            LAMBDA d : directivesMap(ds, k + 1, Append(acc, d), on))

directives(ds, on) == directivesMap(OrElse(ds, <<>>), 1, <<>>, on)

\* One InputValueDefinition; type and defaultValue pass through.
\* A faulty variant of inputValueDefinition that loses the default value.
inputValueDefinitionWithoutDefault(argumentDefinition, on) ==
  Then(directives(argumentDefinition.directives, on),
       LAMBDA ds : Ok([name |-> argumentDefinition.name,
                       description |-> argumentDefinition.description,
                       type |-> argumentDefinition.type,
                       defaultValue |-> Undefined,
                       directives |-> ds]))

inputValueDefinition(argumentDefinition, on) ==
  Then(directives(argumentDefinition.directives, on),
       LAMBDA ds : Ok([name |-> argumentDefinition.name,
                       description |-> argumentDefinition.description,
                       type |-> argumentDefinition.type,
                       defaultValue |-> argumentDefinition.defaultValue,
                       directives |-> ds]))

RECURSIVE inputValuesLoop(_, _, _, _)
inputValuesLoop(definition, k, result, on) ==
  IF k > Len(definition) THEN Ok(result)
  ELSE IF Truthy(result, definition[k].name)
  THEN Err(<<"Multiple argument ", definition[k].name, " on ">> \o on)
  ELSE Then(inputValueDefinition(definition[k], <<"argument on ">> \o on),
            LAMBDA v : inputValuesLoop(definition, k + 1,
                                       Put(result, definition[k].name, v), on))

inputValuesDefinition(definition, on) ==
  inputValuesLoop(OrElse(definition, <<>>), 1, EmptyMap, on)

fieldDefinition(definition, on) ==
  Then(inputValuesDefinition(definition.argumentsDefinition, on),
       LAMBDA args :
         Then(directives(definition.directives, on),
              LAMBDA ds : Ok([description |-> definition.description,
                              name |-> definition.name,
                              argumentsDefinition |-> args,
                              directives |-> ds,
                              type |-> definition.type])))

\* A faulty field check: a field already listed is not noticed.
fieldNeverListed(fields, name) == FALSE

\* if (result[fd.name])
fieldListed(fields, name) == Truthy(fields, name)

RECURSIVE fieldsLoop(_, _, _, _)
fieldsLoop(definition, k, result, on) ==
  IF k > Len(definition) THEN Ok(result)
  ELSE IF fieldListed(result, definition[k].name)
  THEN Err(<<"Multiple field definition on ">> \o on)
  ELSE Then(fieldDefinition(definition[k], <<"field ", definition[k].name, " on ">> \o on),
            LAMBDA v : fieldsLoop(definition, k + 1, Put(result, definition[k].name, v), on))

fieldsDefinition(definition, on) == fieldsLoop(definition, 1, EmptyMap, on)

\* A faulty uniqueness validator: only a name that repeats the one before it
\* is noticed.
noDuplicateAdjacent(strs, on) ==
  IF \E k \in 1..(Len(strs) - 1) : strs[k] = strs[k + 1]
  THEN Err(<<"Duplicate ">> \o on)
  ELSE Ok(strs)

\* A faulty uniqueness validator: the list is returned without the check.
noDuplicateUnchecked(strs, on) == Ok(strs)

\* The uniqueness validator.
noDuplicate(strs, on) ==
  IF Cardinality(SetOf(strs)) # Len(strs)
  THEN Err(<<"Duplicate ">> \o on)
  ELSE Ok(strs)

(***************************************************************************)
(* Type-kind builders (definition case "type")                             *)
(***************************************************************************)
\* `type ${definition.name} definition`
OnDefinition(definition) == <<"type ", definition.name, " definition">>
\* `type ${definition.name} extension`
OnExtension(definition) == <<"type ", definition.name, " extension">>

scalarTypeDefinition(definition) ==
  Then(directives(definition.directives, OnDefinition(definition)),
       LAMBDA ds : Ok([name |-> definition.name, type |-> "scalar",
                       description |-> definition.description, directives |-> ds]))

\* The label of the uniqueness check of an object or interface definition:
\* it interpolates definition.description.
OnImplements(definition) == <<"implements on type ", Str(definition.description)>>

\* object and interface definitions are the same code, tagged by typeType.
implementingTypeDefinition(definition) ==
  Then(directives(definition.directives, OnDefinition(definition)),
       LAMBDA ds :
         Then(noDuplicate(OrElse(definition.implementsInterfaces, <<>>),
                          OnImplements(definition)),
              LAMBDA ii :
                Then(IF definition.fieldsDefinition.some
                     THEN fieldsDefinition(definition.fieldsDefinition.val,
                                           OnDefinition(definition))
                     ELSE Ok(EmptyMap),
                     LAMBDA fs : Ok([name |-> definition.name,
                                     type |-> definition.typeType,
                                     description |-> definition.description,
                                     directives |-> ds,
                                     implementsInterfaces |-> ii,
                                     fieldsDefinition |-> fs]))))

objectTypeDefinition(definition) == implementingTypeDefinition(definition)

interfaceTypeDefinition(definition) == implementingTypeDefinition(definition)

unionTypeDefinition(definition) ==
  Then(directives(definition.directives, OnDefinition(definition)),
       LAMBDA ds :
         Then(noDuplicate(OrElse(definition.unionMemberTypes, <<>>),
                          OnDefinition(definition)),
              LAMBDA ms : Ok([name |-> definition.name, type |-> "union",
                              description |-> definition.description,
                              directives |-> ds, unionMemberTypes |-> ms])))

\* A faulty value check: a value already listed is not noticed.
enumValueNeverTaken(values, name) == FALSE

\* if (enumValuesDefinition[enumValueDefinition.enumValue])
enumValueTaken(values, name) == Truthy(values, name)

\* The enum-value loop, of a definition (suffix " definition") and of an
\* extension (suffix " extension"); on an Error val is the map so far.
RECURSIVE enumValuesLoop(_, _, _, _, _)
enumValuesLoop(values, k, enumValuesDefinition, tname, suffix) ==
  IF k > Len(values) THEN Ok(enumValuesDefinition)
  ELSE IF enumValueTaken(enumValuesDefinition, values[k].enumValue)
  THEN ErrAt(<<"Duplicate enum value ", values[k].enumValue, " on ", tname, suffix>>,
             enumValuesDefinition)
  ELSE ThenAt(directives(values[k].directives, <<"type ", tname, suffix>>),
              enumValuesDefinition,
              LAMBDA ds :
                enumValuesLoop(values, k + 1,
                               Put(enumValuesDefinition, values[k].enumValue,
                                   [name |-> values[k].enumValue,
                                    description |-> values[k].description,
                                    directives |-> ds]),
                               tname, suffix))

enumTypeDefinition(definition) ==
  Then(enumValuesLoop(OrElse(definition.enumValuesDefinition, <<>>), 1, EmptyMap,
                      definition.name, " definition"),
       LAMBDA vs :
         Then(directives(definition.directives, OnDefinition(definition)),
              LAMBDA ds : Ok([name |-> definition.name, type |-> "enum",
                              description |-> definition.description,
                              directives |-> ds, enumValuesDefinition |-> vs])))

inputObjectTypeDefinition(definition) ==
  Then(directives(definition.directives, OnDefinition(definition)),
       LAMBDA ds :
         Then(inputValuesDefinition(definition.inputFieldsDefinition,
                                    OnDefinition(definition)),
              LAMBDA fs : Ok([name |-> definition.name, type |-> "inputObject",
                              description |-> definition.description,
                              directives |-> ds, inputFieldsDefinition |-> fs])))

\* switch (definition.typeType) of the definition case.
buildTypeDefinition(definition) ==
  CASE definition.typeType = "scalar" -> scalarTypeDefinition(definition)
    [] definition.typeType = "object" -> objectTypeDefinition(definition)
    [] definition.typeType = "interface" -> interfaceTypeDefinition(definition)
    [] definition.typeType = "union" -> unionTypeDefinition(definition)
    [] definition.typeType = "enum" -> enumTypeDefinition(definition)
    [] definition.typeType = "inputObject" -> inputObjectTypeDefinition(definition)

\* A faulty name check: a taken name is not noticed.
nameNeverTaken(tds, name) == FALSE

\* if (typeDefinitions[definition.name]): the global name check, made
\* before anything of the definition is built.
nameTaken(tds, name) == Truthy(tds, name)

\* Definition case "type": val is typeDefinitions afterwards.
typeDefinition(definition, tds) ==
  IF nameTaken(tds, definition.name)
  THEN ErrAt(<<"Multiple TypeDefinition for ", definition.name>>, tds)
  ELSE ThenAt(buildTypeDefinition(definition), tds,
              LAMBDA td : Ok(Put(tds, definition.name, td)))

(***************************************************************************)
(* Extension merger (extension case "type")                                *)
(***************************************************************************)
\* The message of every kind check.
KindMismatch(definition) ==
  <<"Type extension for type with different type ", definition.name>>

\* A faulty kind check: a scalar extension of a definition of another kind
\* goes through.
differentKindUnlessScalar(td, kind) ==
  td.type # kind /\ (kind # "scalar" \/ td.type = Undefined)

\* typeDefinition.type !== "<kind>"
differentKind(td, kind) == td.type # kind

\* A faulty push: the directives of the extension go in front of the list.
pushDirectivesInFront(td, definition) ==
  ThenAt(directives(definition.directives, OnExtension(definition)), td,
         LAMBDA ds : Ok([td EXCEPT !.directives = ds \o @]))

\* typeDefinition.directives.push(...directives(definition.directives, on))
pushDirectives(td, definition) ==
  ThenAt(directives(definition.directives, OnExtension(definition)), td,
         LAMBDA ds : Ok([td EXCEPT !.directives = @ \o ds]))

scalarTypeExtension(definition, td) ==
  IF differentKind(td, "scalar") THEN ErrAt(KindMismatch(definition), td)
  ELSE pushDirectives(td, definition)

\* A faulty field check: an existing field is not noticed.
fieldNeverTaken(fields, name) == FALSE

\* if (typeDefinition.fieldsDefinition[fd.name])
fieldTaken(fields, name) == Truthy(fields, name)

\* The field loop of an object or interface extension; the labels
\* interpolate definition.type, the node's tag "typeSystem".
RECURSIVE extensionFieldsLoop(_, _, _, _)
extensionFieldsLoop(fds, k, td, definition) ==
  IF k > Len(fds) THEN Ok(td)
  ELSE IF fieldTaken(td.fieldsDefinition, fds[k].name)
  THEN ErrAt(<<"Multiple field definition on type ", definition.type, " extension">>, td)
  ELSE ThenAt(fieldDefinition(fds[k], <<"field ", fds[k].name, " on type ",
                                        definition.type, " extension">>),
              td,
              LAMBDA v :
                extensionFieldsLoop(fds, k + 1,
                  [td EXCEPT !.fieldsDefinition = Put(@, fds[k].name, v)], definition))

\* A faulty merge: the interfaces of the extension are appended without the
\* uniqueness check.
mergeInterfacesUnchecked(td, definition) ==
  Ok([td EXCEPT !.implementsInterfaces =
                  @ \o OrElse(definition.implementsInterfaces, <<>>)])

\* typeDefinition.implementsInterfaces = noDuplicate([...old, ...new], on)
mergeInterfaces(td, definition) ==
  ThenAt(noDuplicate(td.implementsInterfaces
                       \o OrElse(definition.implementsInterfaces, <<>>),
                     <<"implements on type ", definition.name, " extension">>),
         td,
         LAMBDA ii : Ok([td EXCEPT !.implementsInterfaces = ii]))

\* A faulty order: between an object and an interface the interfaces and the
\* fields are merged first and the kind is tested after them.
implementingContentFirst(definition, td, kind) ==
  IF td.type \in {"object", "interface"}
  THEN Then(mergeInterfaces(td, definition),
            LAMBDA td1 :
              Then(extensionFieldsLoop(OrElse(definition.fieldsDefinition, <<>>), 1,
                                       td1, definition),
                   LAMBDA td2 :
                     IF differentKind(td2, kind) THEN ErrAt(KindMismatch(definition), td2)
                     ELSE pushDirectives(td2, definition)))
  ELSE ErrAt(KindMismatch(definition), td)

\* object and interface extensions are the same code but for the kind tested.
implementingTypeExtension(definition, td, kind) ==
  IF differentKind(td, kind) THEN ErrAt(KindMismatch(definition), td)
  ELSE Then(mergeInterfaces(td, definition),
            LAMBDA td1 :
              Then(extensionFieldsLoop(OrElse(definition.fieldsDefinition, <<>>), 1,
                                       td1, definition),
                   LAMBDA td2 : pushDirectives(td2, definition)))

objectTypeExtension(definition, td) == implementingTypeExtension(definition, td, "object")

interfaceTypeExtension(definition, td) ==
  implementingTypeExtension(definition, td, "interface")

\* typeDefinition.unionMemberTypes = noDuplicate([...old, ...new], on)
mergeMembers(td, definition) ==
  ThenAt(noDuplicate(td.unionMemberTypes \o OrElse(definition.unionMemberTypes, <<>>),
                     OnExtension(definition)),
         td,
         LAMBDA ms : Ok([td EXCEPT !.unionMemberTypes = ms]))

\* The directives are pushed before the members are validated.
unionTypeExtension(definition, td) ==
  IF differentKind(td, "union") THEN ErrAt(KindMismatch(definition), td)
  ELSE Then(pushDirectives(td, definition),
            LAMBDA pushed : mergeMembers(pushed, definition))

\* The enum type with the value map the loop left, and its directives pushed
\* when the loop went through.
enumValuesMerged(definition, td, vs) ==
  IF vs.isError
  THEN ErrAt(vs.message, [td EXCEPT !.enumValuesDefinition = vs.val])
  ELSE pushDirectives([td EXCEPT !.enumValuesDefinition = vs.val], definition)

enumTypeExtension(definition, td) ==
  IF differentKind(td, "enum") THEN ErrAt(KindMismatch(definition), td)
  ELSE enumValuesMerged(definition, td,
         enumValuesLoop(OrElse(definition.enumValuesDefinition, <<>>), 1,
                        td.enumValuesDefinition, definition.name, " extension"))

\* A faulty input-field check: an existing input field is not noticed.
inputFieldNeverTaken(fields, name) == FALSE

\* if (typeDefinition.inputFieldsDefinition[argumentDefinition.name])
inputFieldTaken(fields, name) == Truthy(fields, name)

\* The input-field loop of an inputObject extension.
RECURSIVE extensionInputFieldsLoop(_, _, _, _)
extensionInputFieldsLoop(ads, k, td, definition) ==
  IF k > Len(ads) THEN Ok(td)
  ELSE IF inputFieldTaken(td.inputFieldsDefinition, ads[k].name)
  THEN ErrAt(<<"Multiple argument ", ads[k].name, " on type ", definition.name,
               " extension">>, td)
  ELSE ThenAt(inputValueDefinition(ads[k], <<"argument on type ", definition.name,
                                             " extension">>),
              td,
              LAMBDA v :
                extensionInputFieldsLoop(ads, k + 1,
                  [td EXCEPT !.inputFieldsDefinition = Put(@, ads[k].name, v)],
                  definition))

inputObjectTypeExtension(definition, td) ==
  IF differentKind(td, "inputObject") THEN ErrAt(KindMismatch(definition), td)
  ELSE Then(extensionInputFieldsLoop(OrElse(definition.inputFieldsDefinition, <<>>),
                                     1, td, definition),
            LAMBDA td1 : pushDirectives(td1, definition))

\* switch (definition.typeType) of the extension case.
mergeTypeExtension(definition, td) ==
  CASE definition.typeType = "scalar" -> scalarTypeExtension(definition, td)
    [] definition.typeType = "object" -> objectTypeExtension(definition, td)
    [] definition.typeType = "interface" -> interfaceTypeExtension(definition, td)
    [] definition.typeType = "union" -> unionTypeExtension(definition, td)
    [] definition.typeType = "enum" -> enumTypeExtension(definition, td)
    [] definition.typeType = "inputObject" -> inputObjectTypeExtension(definition, td)

\* if (!typeDefinition)
noTypeDefinition(tds, name) == ~Truthy(tds, name)

\* A faulty merge: every type entry is the object the extension was merged
\* into.
mergedIntoAll(tds, name, r) ==
  [isError |-> r.isError, message |-> IF r.isError THEN r.message ELSE <<>>,
   val |-> IF r.isError THEN tds ELSE [n \in DOMAIN tds |-> r.val]]

\* typeDefinitions once the entry found by name was merged in place, r being
\* the outcome of the merge.  An inherited value is never written to: its
\* kind check fails first.
mergedInPlace(tds, name, r) ==
  IF name \in DOMAIN tds
  THEN [isError |-> r.isError, message |-> IF r.isError THEN r.message ELSE <<>>,
        val |-> [tds EXCEPT ![name] = r.val]]
  ELSE [isError |-> r.isError, message |-> IF r.isError THEN r.message ELSE <<>>,
        val |-> tds]

\* Extension case "type": val is typeDefinitions afterwards.
typeExtension(definition, tds) ==
  IF noTypeDefinition(tds, definition.name)
  THEN ErrAt(<<"Type extension before type definition for type ", definition.name>>, tds)
  ELSE mergedInPlace(tds, definition.name,
                     mergeTypeExtension(definition, Get(tds, definition.name)))

(***************************************************************************)
(* Root-operation-type resolver, directive definitions                     *)
(***************************************************************************)
Revisions == {"inline", "context"}

\* The mapping a SchemaDefinition starts from: three undefined slots in the
\* inline revision, `{}` in the context revision.
freshRootOperationTypes(r) ==
  IF r = "inline"
  THEN [query |-> Undefined, mutation |-> Undefined, subscription |-> Undefined]
  ELSE EmptyMap

\* if (rootOperationTypes[operationType])
slotBound(rot, operationType) ==
  operationType \in DOMAIN rot /\ rot[operationType] # Undefined

\* The binding loop of a definition and of an extension; on an Error val is
\* the mapping with the bindings made before it.
RECURSIVE rootOperationTypesLoop(_, _, _)
rootOperationTypesLoop(defs, k, rot) ==
  IF k > Len(defs) THEN Ok(rot)
  ELSE IF slotBound(rot, defs[k].operationType)
  THEN ErrAt(<<"Multiple RootOperationTypeDefinition for ", defs[k].operationType>>, rot)
  ELSE rootOperationTypesLoop(defs, k + 1, Put(rot, defs[k].operationType, defs[k].type))

\* What a schema case leaves behind, err being how it ended.
SchemaState(err, rot, desc, sdirs) ==
  [isError |-> err.isError, message |-> IF err.isError THEN err.message ELSE <<>>,
   rootOperationTypes |-> rot, description |-> desc, schemaDirectives |-> sdirs]

\* A faulty push: the directives take the place of the list.
schemaDirectivesReplaced(ds, rot, desc, sdirs) ==
  IF ds.isError THEN [isError |-> TRUE, message |-> ds.message,
                      rootOperationTypes |-> rot, description |-> desc,
                      schemaDirectives |-> sdirs]
  ELSE [isError |-> FALSE, message |-> <<>>, rootOperationTypes |-> rot,
        description |-> desc, schemaDirectives |-> ds.val]

\* schemaDirectives.push(...directives(definition.directives, "schema definition")),
\* ds being the normalized directives.
schemaDirectivesPushed(ds, rot, desc, sdirs) ==
  IF ds.isError THEN SchemaState(ds, rot, desc, sdirs)
  ELSE SchemaState(ds, rot, desc, sdirs \o ds.val)

\* A faulty guard: an existing mapping is not noticed.
schemaNeverSeen(rot) == FALSE

\* if (rootOperationTypes): an object, even an empty one, is truthy.
schemaSeen(rot) == rot.some

\* A SchemaDefinition after its binding loop (bound): description, directives.
schemaDefinitionBound(definition, desc, sdirs, bound) ==
  IF bound.isError THEN SchemaState(bound, Some(bound.val), desc, sdirs)
  ELSE schemaDirectivesPushed(directives(definition.directives, <<"schema definition">>),
                              Some(bound.val), definition.description, sdirs)

\* Definition case "schema".
schemaDefinition(definition, r, rot, desc, sdirs) ==
  IF schemaSeen(rot)
  THEN SchemaState(Err(<<"Multiple SchemaDefinition">>), rot, desc, sdirs)
  ELSE schemaDefinitionBound(definition, desc, sdirs,
         rootOperationTypesLoop(definition.rootOperationTypeDefinitions, 1,
                                freshRootOperationTypes(r)))

\* What a SchemaExtension finds when no mapping exists yet: the inline
\* revision returns an Error, the context revision does `??= {}`.
extensionStart(r, rot) ==
  IF rot.some THEN Ok(rot.val)
  ELSE IF r = "inline" THEN Err(<<"SchemaExtension before SchemaDefinition">>)
  ELSE Ok(EmptyMap)

\* A SchemaExtension after its binding loop (bound): directives.
schemaExtensionBound(definition, desc, sdirs, bound) ==
  IF bound.isError THEN SchemaState(bound, Some(bound.val), desc, sdirs)
  ELSE schemaDirectivesPushed(directives(definition.directives, <<"schema definition">>),
                              Some(bound.val), desc, sdirs)

\* A SchemaExtension from the mapping it starts with.
schemaExtensionFrom(definition, rot, desc, sdirs, start) ==
  IF start.isError THEN SchemaState(start, rot, desc, sdirs)
  ELSE schemaExtensionBound(definition, desc, sdirs,
         rootOperationTypesLoop(OrElse(definition.rootOperationTypeDefinitions, <<>>),
                                1, start.val))

\* Extension case "schema".
schemaExtension(definition, r, rot, desc, sdirs) ==
  schemaExtensionFrom(definition, rot, desc, sdirs, extensionStart(r, rot))

\* A faulty location check: a location already listed is not noticed.
locationNeverTaken(locations, location) == FALSE

\* if (directive.locations[directiveLocation])
locationTaken(locations, location) == Truthy(locations, location)

\* The location loop of a directive definition; on an Error val is the
\* location map so far.
RECURSIVE directiveLocationsLoop(_, _, _, _)
directiveLocationsLoop(locs, k, locations, dname) ==
  IF k > Len(locs) THEN Ok(locations)
  ELSE IF locationTaken(locations, locs[k])
  THEN ErrAt(<<"Multiple DirectiveLocation ", locs[k], " for directive ", dname>>,
             locations)
  ELSE directiveLocationsLoop(locs, k + 1, Put(locations, locs[k], TRUE), dname)

\* directiveDefinitions once the entry is stored and its locations filled in
\* as far as the location loop (locs) went.
directiveStored(definition, dds, args, locs) ==
  [isError |-> locs.isError, message |-> IF locs.isError THEN locs.message ELSE <<>>,
   val |-> Put(dds, definition.name,
               [description |-> definition.description,
                locations |-> locs.val,
                name |-> definition.name,
                repeatable |-> definition.repeatable,
                argumentsDefinition |-> args])]

\* A faulty name check: a directive name that is taken is not noticed.
directiveNameNeverTaken(dds, name) == FALSE

\* if (directiveDefinitions[definition.name])
directiveNameTaken(dds, name) == Truthy(dds, name)

\* Definition case "directive": val is directiveDefinitions afterwards.
directiveDefinition(definition, dds) ==
  IF directiveNameTaken(dds, definition.name)
  THEN ErrAt(<<"Multiple DirectiveDefinition for ", definition.name>>, dds)
  ELSE ThenAt(inputValuesDefinition(definition.argumentsDefinition,
                                    <<"directive ", definition.name>>),
              dds,
              LAMBDA args :
                directiveStored(definition, dds, args,
                  directiveLocationsLoop(definition.directiveLocations, 1, EmptyMap,
                                         definition.name)))

\* An entry with definition.type = "executable": the inline revision's
\* switch has no case for it, the context revision raises.
executable(r) ==
  IF r = "inline" THEN Ok(TRUE) ELSE Err(<<"ExecutableDocument in Schema">>)

\* The return statement after the loop.
finalResult(r, rot, desc, sdirs, dds, tds) ==
  IF ~rot.some /\ r = "inline" THEN Err(<<"No SchemaDefinition">>)
  ELSE [isError |-> FALSE,
        description |-> desc,
        rootOperationTypes |-> OrElse(rot, EmptyMap),
        schemaDirectives |-> sdirs,
        directiveDefinitions |-> dds,
        typeDefinitions |-> tds]

(***************************************************************************)
(* Input: parser nodes and the documents analysed                          *)
(***************************************************************************)
\* A directive application @name(arg: value, ...).
Dir(name, arguments) == [name |-> name, arguments |-> arguments]
Arg(name, value) == [name |-> name, value |-> value]
DirA == Dir("a", None)
DirB == Dir("b", Some(<<Arg("x", "1")>>))

Field(name, type) ==
  [name |-> name, description |-> Undefined, argumentsDefinition |-> None,
   type |-> type, directives |-> None]
InputValue(name, type) ==
  [name |-> name, description |-> Undefined, type |-> type,
   defaultValue |-> Undefined, directives |-> None]
\* A field with arguments, and an input value with a default value.
FieldWith(name, type, args) ==
  [name |-> name, description |-> Undefined, argumentsDefinition |-> Some(args),
   type |-> type, directives |-> None]
InputValueWith(name, type, defaultValue) ==
  [name |-> name, description |-> Undefined, type |-> type,
   defaultValue |-> defaultValue, directives |-> None]
EnumValue(name) == [enumValue |-> name, description |-> Undefined, directives |-> None]
RootOp(operationType, type) == [operationType |-> operationType, type |-> type]

SchemaDefinitionNode(description, ops, ds) ==
  [type |-> "typeSystem", subType |-> "definition", definitionType |-> "schema",
   description |-> description, rootOperationTypeDefinitions |-> ops, directives |-> ds]
SchemaExtensionNode(ops, ds) ==
  [type |-> "typeSystem", subType |-> "extension", extensionType |-> "schema",
   rootOperationTypeDefinitions |-> ops, directives |-> ds]
DirectiveDefinitionNode(name, args, locs) ==
  [type |-> "typeSystem", subType |-> "definition", definitionType |-> "directive",
   description |-> Undefined, name |-> name, repeatable |-> FALSE,
   argumentsDefinition |-> args, directiveLocations |-> locs]
ExecutableNode == [type |-> "executable", subType |-> "operation"]

\* The head of a type definition (sub = "definition") or type extension
\* (sub = "extension"); the kind-specific payload is added with @@.
TypeHead(sub, typeType, name, description, ds) ==
  IF sub = "definition"
  THEN [type |-> "typeSystem", subType |-> "definition", definitionType |-> "type",
        typeType |-> typeType, name |-> name, description |-> description,
        directives |-> ds]
  ELSE [type |-> "typeSystem", subType |-> "extension", extensionType |-> "type",
        typeType |-> typeType, name |-> name, directives |-> ds]
ScalarNode(sub, name, ds) == TypeHead(sub, "scalar", name, Undefined, ds)
ObjectNode(sub, name, description, interfaces, fields, ds) ==
  TypeHead(sub, "object", name, description, ds)
    @@ [implementsInterfaces |-> interfaces, fieldsDefinition |-> fields]
InterfaceNode(sub, name, description, interfaces, fields, ds) ==
  TypeHead(sub, "interface", name, description, ds)
    @@ [implementsInterfaces |-> interfaces, fieldsDefinition |-> fields]
UnionNode(sub, name, members, ds) ==
  TypeHead(sub, "union", name, Undefined, ds) @@ [unionMemberTypes |-> members]
EnumNode(sub, name, values, ds) ==
  TypeHead(sub, "enum", name, Undefined, ds) @@ [enumValuesDefinition |-> values]
InputObjectNode(sub, name, fields, ds) ==
  TypeHead(sub, "inputObject", name, Undefined, ds) @@ [inputFieldsDefinition |-> fields]

\* The parser nodes documents are made of, by key.
Nodes ==
  [ \* schema definitions and extensions
    schemaQ |-> SchemaDefinitionNode("S", <<RootOp("query", "Q")>>, Some(<<DirA>>)),
    schemaQM |-> SchemaDefinitionNode(Undefined,
                   <<RootOp("query", "Q"), RootOp("mutation", "M")>>, None),
    schemaQQ |-> SchemaDefinitionNode(Undefined,
                   <<RootOp("query", "Q"), RootOp("query", "R")>>, None),
    schemaFoo |-> SchemaDefinitionNode(Undefined, <<RootOp("query", "Foo")>>, None),
    extSchemaM |-> SchemaExtensionNode(Some(<<RootOp("mutation", "M")>>), Some(<<DirB>>)),
    extSchemaN |-> SchemaExtensionNode(Some(<<RootOp("mutation", "N")>>), None),
    extSchemaR |-> SchemaExtensionNode(Some(<<RootOp("query", "R")>>), None),
    extSchemaTU |-> SchemaExtensionNode(
                      Some(<<RootOp("subscription", "T"), RootOp("subscription", "U")>>), None),
    extSchemaDir |-> SchemaExtensionNode(None, Some(<<DirA>>)),
    \* directive definitions, an executable definition
    directiveD |-> DirectiveDefinitionNode("d", Some(<<InputValueWith("x", "Int", "0")>>),
                                           <<"SCHEMA", "FIELD">>),
    directiveD2 |-> DirectiveDefinitionNode("d", Some(<<InputValue("x", "Int")>>),
                                            <<"FIELD", "FIELD">>),
    directiveE |-> DirectiveDefinitionNode("e",
                     Some(<<InputValue("x", "Int"), InputValue("x", "Int")>>),
                     <<"FIELD", "FIELD">>),
    directiveFoo |-> DirectiveDefinitionNode("Foo", None, <<"FIELD">>),
    operation |-> ExecutableNode,
    \* one definition and one extension of each kind for the name Foo
    scalarFoo |-> ScalarNode("definition", "Foo", Some(<<DirA>>)),
    objectFoo |-> ObjectNode("definition", "Foo", "an object", None,
                             Some(<<Field("hello", "String")>>), None),
    interfaceFoo |-> InterfaceNode("definition", "Foo", Undefined, None, None, None),
    unionFoo |-> UnionNode("definition", "Foo", Some(<<"A">>), None),
    enumFoo |-> EnumNode("definition", "Foo", Some(<<EnumValue("RED")>>), None),
    inputFoo |-> InputObjectNode("definition", "Foo",
                                Some(<<InputValueWith("x", "Int", "0")>>), None),
    extScalarFoo |-> ScalarNode("extension", "Foo", Some(<<DirB>>)),
    extObjectFoo |-> ObjectNode("extension", "Foo", Undefined, None,
                                Some(<<Field("hello", "Int")>>), None),
    extInterfaceFoo |-> InterfaceNode("extension", "Foo", Undefined, Some(<<"A">>), None, None),
    extUnionFoo |-> UnionNode("extension", "Foo", Some(<<"A">>), Some(<<DirA>>)),
    extEnumFoo |-> EnumNode("extension", "Foo", Some(<<EnumValue("RED")>>), None),
    extInputFoo |-> InputObjectNode("extension", "Foo", Some(<<InputValue("x", "Int")>>), None),
    \* a name that `{}` inherits
    scalarCtor |-> ScalarNode("definition", "constructor", None),
    extScalarCtor |-> ScalarNode("extension", "constructor", None),
    \* objects, interfaces and unions with fields, interfaces and members
    typeFoo |-> ObjectNode("definition", "Foo", "d", Some(<<"A">>),
                           Some(<<Field("hello", "String")>>), Some(<<DirA>>)),
    typeFooAA |-> ObjectNode("definition", "Foo", Undefined, Some(<<"A", "A">>), None, None),
    extFooWorld |-> ObjectNode("extension", "Foo", Undefined, None,
                               Some(<<Field("world", "String")>>), Some(<<DirB>>)),
    extFooHello |-> ObjectNode("extension", "Foo", Undefined, None,
                               Some(<<Field("hello", "Int")>>), None),
    extFooA |-> ObjectNode("extension", "Foo", Undefined, Some(<<"A">>), None, None),
    extFooB |-> ObjectNode("extension", "Foo", Undefined, Some(<<"B">>),
                           Some(<<Field("extra", "Int"), Field("world", "Int")>>), None),
    extFooToString |-> ObjectNode("extension", "Foo", Undefined, None,
                                  Some(<<Field("toString", "String")>>), None),
    extFooMore |-> ObjectNode("extension", "Foo", Undefined, None,
                              Some(<<Field("more", "Int")>>), None),
    interfaceBar |-> InterfaceNode("definition", "Bar", Undefined, Some(<<"A">>),
                      Some(<<FieldWith("hello", "String",
                                       <<InputValueWith("n", "Int", "1")>>)>>), None),
    extBarBA |-> InterfaceNode("extension", "Bar", Undefined, Some(<<"B", "A">>), None, None),
    extBarB |-> InterfaceNode("extension", "Bar", Undefined, Some(<<"B">>),
                              Some(<<Field("world", "String")>>), Some(<<DirA>>)),
    extObjectBar |-> ObjectNode("extension", "Bar", Undefined, Some(<<"A">>),
                                Some(<<Field("hello", "Int")>>), Some(<<DirB>>)),
    unionU |-> UnionNode("definition", "U", Some(<<"A", "B">>), Some(<<DirA>>)),
    unionUAA |-> UnionNode("definition", "U", Some(<<"A", "A">>), None),
    extUnionB |-> UnionNode("extension", "U", Some(<<"B">>), Some(<<DirB>>)),
    extUnionC |-> UnionNode("extension", "U", Some(<<"C">>), None),
    typeFooHH |-> ObjectNode("definition", "Foo", Undefined, None,
                             Some(<<Field("hello", "String"), Field("hello", "Int")>>),
                             None),
    objectBare |-> ObjectNode("definition", "Bare", Undefined, None, None, None),
    \* enums and input objects with their values and input fields
    enumColor |-> EnumNode("definition", "Color",
                           Some(<<EnumValue("RED"), EnumValue("GREEN")>>), Some(<<DirA>>)),
    enumColorRR |-> EnumNode("definition", "Color",
                             Some(<<EnumValue("RED"), EnumValue("RED")>>), None),
    enumColorCase |-> EnumNode("definition", "Color",
                               Some(<<EnumValue("RED"), EnumValue("red")>>), None),
    enumColorProto |-> EnumNode("definition", "Color",
                         Some(<<EnumValue("valueOf"), EnumValue("RED"), EnumValue("RED")>>),
                         None),
    extColorBlue |-> EnumNode("extension", "Color", Some(<<EnumValue("BLUE")>>), None),
    extColorRed |-> EnumNode("extension", "Color", Some(<<EnumValue("RED")>>), None),
    extColorBB |-> EnumNode("extension", "Color",
                            Some(<<EnumValue("BLACK"), EnumValue("BLUE")>>), Some(<<DirB>>)),
    extInputFooY |-> InputObjectNode("extension", "Foo", Some(<<InputValue("y", "Int")>>),
                                     Some(<<DirB>>)),
    extInputFooYX |-> InputObjectNode("extension", "Foo",
                        Some(<<InputValue("y", "String"), InputValue("x", "String")>>),
                        None) ]

\* Schema definitions and extensions, an executable definition.
RootEntries ==
  {"schemaQ", "schemaQM", "schemaQQ", "extSchemaM", "extSchemaN", "extSchemaR",
   "extSchemaTU", "extSchemaDir", "operation"}

\* Directive definitions, one of them with the name of a type, that type and
\* an extension of it, a schema definition, an executable definition.
DirectiveEntries ==
  {"directiveD", "directiveD2", "directiveE", "directiveFoo", "scalarFoo",
   "extScalarFoo", "schemaQ", "operation"}

\* A definition and an extension of each of the six kinds for one name, a
\* definition and an extension of an inherited name, a schema definition.
KindEntries ==
  {"scalarFoo", "objectFoo", "interfaceFoo", "unionFoo", "enumFoo", "inputFoo",
   "extScalarFoo", "extObjectFoo", "extInterfaceFoo", "extUnionFoo", "extEnumFoo",
   "extInputFoo", "scalarCtor", "extScalarCtor", "schemaFoo"}

\* An object with its fields and interfaces.
ObjectEntries ==
  {"typeFoo", "typeFooAA", "extFooWorld", "extFooHello", "extFooA", "extFooB",
   "extFooToString", "extFooMore", "schemaFoo"}

\* An interface and a union with their fields, interfaces and members.
MemberEntries ==
  {"interfaceBar", "extBarBA", "extBarB", "extObjectBar", "unionU", "unionUAA",
   "extUnionB", "extUnionC", "schemaFoo"}

\* An enum with its values.
EnumEntries ==
  {"enumColor", "enumColorRR", "enumColorCase", "enumColorProto", "extColorBlue",
   "extColorRed", "extColorBB", "schemaFoo"}

\* An input object with its input fields.
InputEntries == {"inputFoo", "extInputFoo", "extInputFooY", "extInputFooYX", "schemaFoo"}

\* Entries of every case of the loop.
MixedEntries ==
  {"schemaQ", "extSchemaM", "directiveD", "operation", "typeFoo", "extFooWorld",
   "extFooHello", "typeFooHH", "objectBare"}

\* The families documents are drawn from.
Families ==
  {"root", "directives", "kinds", "objects", "members", "enums", "inputs", "mixed"}

\* The nodes of a family.
Entries(f) ==
  {Nodes[k] : k \in CASE f = "root" -> RootEntries
                      [] f = "directives" -> DirectiveEntries
                      [] f = "kinds" -> KindEntries
                      [] f = "objects" -> ObjectEntries
                      [] f = "members" -> MemberEntries
                      [] f = "enums" -> EnumEntries
                      [] f = "inputs" -> InputEntries
                      [] f = "mixed" -> MixedEntries}

(***************************************************************************)
(* State                                                                   *)
(***************************************************************************)
VARIABLES
  rev,                  \* the revision that runs
  family,               \* the family the document is drawn from
  document,             \* analyzeSchema's argument
  i,                    \* index of the entry the loop is at
  description,          \* the builder state of schema()
  rootOperationTypes,
  schemaDirectives,
  directiveDefinitions,
  typeDefinitions,
  pc,                   \* "compose" while the caller builds the document,
                        \* "loop" while schema() runs, "returned" afterwards
  result,               \* analyzeSchema's return value
  callee,               \* the function that is called
  input,                \* a normalizer's argument, when one is called on its own
  output,               \* that normalizer's return value
  previous,             \* the document and the return value of the caller's
                        \* previous analysis, when the caller made one
  aliases               \* the type names whose interface or member list in
                        \* typeDefinitions is the very array of a node of the
                        \* document, with the index of that node

vars == <<rev, family, document, i, description, rootOperationTypes, schemaDirectives,
          directiveDefinitions, typeDefinitions, pc, result, callee, input, output,
          previous, aliases>>

\* The call of a normalizer on its own.
unit == <<callee, input, output>>

\* What does not change while schema() runs.
outside == <<unit, previous, rev, family>>

\* result before analyzeSchema has returned.
Pending == [pending |-> TRUE]

Init ==
  /\ rev \in Revisions
  /\ family \in Families
  /\ document = <<>>
  /\ i = 1
  /\ description = Undefined
  /\ rootOperationTypes = None
  /\ schemaDirectives = <<>>
  /\ directiveDefinitions = EmptyMap
  /\ typeDefinitions = EmptyMap
  /\ pc = "compose"
  /\ result = Pending
  /\ callee = "analyzeSchema"
  /\ input = <<>>
  /\ output = Pending
  /\ previous = None
  /\ aliases = EmptyMap

\* The builder state of schema().
builder == <<description, rootOperationTypes, schemaDirectives, directiveDefinitions,
             typeDefinitions>>

\* The caller puts one more node at the end of the document, which has at
\* most MaxDoc entries.
Compose ==
  /\ pc = "compose"
  /\ Len(document) < MaxDoc
  /\ \E e \in Entries(family) : document' = Append(document, e)
  /\ UNCHANGED <<outside, i, builder, pc, result, aliases>>

\* A faulty schema(): the locals are not declared in the function, they are
\* the ones the call before left.
InvokeOnOldLocals(doc) ==
  /\ pc' = "loop"
  /\ document' = doc
  /\ i' = 1
  /\ result' = Pending
  /\ UNCHANGED <<builder, aliases>>

\* analyzeSchema(doc) is entered: schema() declares its locals and the loop
\* starts at the first entry.
Invoke(doc) ==
  /\ pc' = "loop"
  /\ document' = doc
  /\ i' = 1
  /\ result' = Pending
  /\ description' = Undefined
  /\ rootOperationTypes' = None
  /\ schemaDirectives' = <<>>
  /\ directiveDefinitions' = EmptyMap
  /\ typeDefinitions' = EmptyMap
  /\ aliases' = EmptyMap

\* analyzeSchema(document) is called.
Call ==
  /\ pc = "compose"
  /\ Invoke(document)
  /\ UNCHANGED outside

\* The j-th definition of the document.
Definition(j) == document[j]

\* The loop is at an entry.
AtEntry == pc = "loop" /\ i <= Len(document)

\* A faulty loop: it stays at the entry it has processed.
ProceedInPlace(r) ==
  IF r.isError
  THEN pc' = "returned" /\ result' = Err(r.message) /\ i' = i
  ELSE pc' = pc /\ result' = result /\ i' = i

\* A faulty loop: an Error does not end it.
ProceedPastError(r) == pc' = pc /\ result' = result /\ i' = i + 1

\* A faulty catch: the failure comes back with what was built so far.
ProceedWithPartial(r) ==
  IF r.isError
  THEN pc' = "returned" /\ result' = r /\ i' = i
  ELSE pc' = pc /\ result' = result /\ i' = i + 1

\* How an iteration ends: the next entry, or the Error returned through
\* unwrap/raise and analyzeSchema's catch.
Proceed(r) ==
  IF r.isError
  THEN pc' = "returned" /\ result' = Err(r.message) /\ i' = i
  ELSE pc' = pc /\ result' = result /\ i' = i + 1

IsDefinition(e, definitionType) ==
  e.type = "typeSystem" /\ e.subType = "definition" /\ e.definitionType = definitionType

IsExtension(e, extensionType) ==
  e.type = "typeSystem" /\ e.subType = "extension" /\ e.extensionType = extensionType

\* A schema case ended as r.
SchemaStep(r) ==
  /\ rootOperationTypes' = r.rootOperationTypes
  /\ description' = r.description
  /\ schemaDirectives' = r.schemaDirectives
  /\ Proceed(r)
  /\ UNCHANGED <<outside, document, directiveDefinitions, typeDefinitions, aliases>>

\* A faulty store: the directive definition is also put into typeDefinitions,
\* as if one map held the names of both.
DirectiveStepShared(r) ==
  /\ directiveDefinitions' = r.val
  /\ typeDefinitions' = [n \in DOMAIN typeDefinitions \cup DOMAIN r.val |->
                           IF n \in DOMAIN r.val THEN r.val[n] ELSE typeDefinitions[n]]
  /\ Proceed(r)
  /\ UNCHANGED <<outside, document, description, rootOperationTypes, schemaDirectives,
                 aliases>>

\* A directive definition ended as r.
DirectiveStep(r) ==
  /\ directiveDefinitions' = r.val
  /\ Proceed(r)
  /\ UNCHANGED <<outside, document, description, rootOperationTypes, schemaDirectives,
                 typeDefinitions, aliases>>

\* The name a type entry keeps its list of names under.
ListKey(td) == IF td.type = "union" THEN "unionMemberTypes" ELSE "implementsInterfaces"

\* noDuplicate(definition.x ?? [], on) returns its argument: the list stored
\* is the node's own array when the node has one, the new `[]` otherwise.
\* Nothing is stored when the definition fails.
aliasesDefined(a, definition, j, r) ==
  IF r.isError \/ definition.typeType \notin {"object", "interface", "union"}
  THEN a
  ELSE IF definition[ListKey([type |-> definition.typeType])].some
  THEN Put(a, definition.name, j)
  ELSE a

\* A faulty merge: old.push(...new), which writes to the array the entry has.
pushedInPlace(a, name) == a

\* typeDefinition.x = noDuplicate([...old, ...new], on): the spread builds a
\* new array and the entry holds that one from now on.
spreadAssigned(a, name) == [n \in DOMAIN a \ {name} |-> a[n]]

\* The assignment of the merged list was made: the kind check and the
\* uniqueness check before it went through (in a union the directives are
\* pushed before).
assignmentMade(definition, td) ==
  CASE definition.typeType \in {"object", "interface"} ->
         /\ ~differentKind(td, definition.typeType)
         /\ ~mergeInterfaces(td, definition).isError
    [] definition.typeType = "union" -> ~unionTypeExtension(definition, td).isError
    [] OTHER -> FALSE

aliasesExtended(a, definition, tds) ==
  IF definition.name \in DOMAIN tds /\ assignmentMade(definition, tds[definition.name])
  THEN spreadAssigned(a, definition.name)
  ELSE a

\* A node whose array an entry holds: what is in the entry's list is in the
\* node's list, they are one array.
nodeSharing(e, td) ==
  IF td.type = "union"
  THEN [e EXCEPT !.unionMemberTypes = Some(td.unionMemberTypes)]
  ELSE [e EXCEPT !.implementsInterfaces = Some(td.implementsInterfaces)]

\* The document as the writes to typeDefinitions leave it.
writtenThrough(doc, a, tds) ==
  [j \in 1..Len(doc) |->
     IF \E n \in DOMAIN a : a[n] = j
     THEN nodeSharing(doc[j], tds[doc[j].name])
     ELSE doc[j]]

\* A type case ended as r, the entries holding the arrays a.
TypeStep(r, a) ==
  /\ typeDefinitions' = r.val
  /\ aliases' = a
  /\ document' = writtenThrough(document, a, r.val)
  /\ Proceed(r)
  /\ UNCHANGED <<outside, description, rootOperationTypes, schemaDirectives,
                 directiveDefinitions>>

SchemaDefinitionCase ==
  /\ AtEntry
  /\ IsDefinition(Definition(i), "schema")
  /\ SchemaStep(schemaDefinition(Definition(i), rev, rootOperationTypes, description,
                                 schemaDirectives))

DirectiveDefinitionCase ==
  /\ AtEntry
  /\ IsDefinition(Definition(i), "directive")
  /\ DirectiveStep(directiveDefinition(Definition(i), directiveDefinitions))

TypeDefinitionCase ==
  /\ AtEntry
  /\ IsDefinition(Definition(i), "type")
  /\ TypeStep(typeDefinition(Definition(i), typeDefinitions),
              aliasesDefined(aliases, Definition(i), i,
                             typeDefinition(Definition(i), typeDefinitions)))

SchemaExtensionCase ==
  /\ AtEntry
  /\ IsExtension(Definition(i), "schema")
  /\ SchemaStep(schemaExtension(Definition(i), rev, rootOperationTypes, description,
                                schemaDirectives))

TypeExtensionCase ==
  /\ AtEntry
  /\ IsExtension(Definition(i), "type")
  /\ TypeStep(typeExtension(Definition(i), typeDefinitions),
              aliasesExtended(aliases, Definition(i), typeDefinitions))

ExecutableCase ==
  /\ AtEntry
  /\ Definition(i).type = "executable"
  /\ Proceed(executable(rev))
  /\ UNCHANGED <<outside, document, description, rootOperationTypes, schemaDirectives,
                 directiveDefinitions, typeDefinitions, aliases>>

\* The loop is over: schema() returns.
Return ==
  /\ pc = "loop"
  /\ i > Len(document)
  /\ pc' = "returned"
  /\ result' = finalResult(rev, rootOperationTypes, description, schemaDirectives,
                           directiveDefinitions, typeDefinitions)
  /\ UNCHANGED <<outside, document, i, description, rootOperationTypes, schemaDirectives,
                 directiveDefinitions, typeDefinitions, aliases>>

Next ==
  \/ Compose
  \/ Call
  \/ SchemaDefinitionCase
  \/ DirectiveDefinitionCase
  \/ TypeDefinitionCase
  \/ SchemaExtensionCase
  \/ TypeExtensionCase
  \/ ExecutableCase
  \/ Return

Spec == Init /\ [][Next]_vars

(***************************************************************************)
(* A caller that analyses a second document                                *)
(***************************************************************************)
\* The documents the caller analyses after document doc: the same one, the
\* one without its first entry, the one without its last entry.
Afterwards(doc) ==
  {doc} \cup (IF doc = <<>> THEN {} ELSE {Tail(doc), SubSeq(doc, 1, Len(doc) - 1)})

\* analyzeSchema has returned and the caller, which keeps the document and
\* the value returned, calls it a second time.
Again ==
  /\ pc = "returned"
  /\ ~previous.some
  /\ previous' = Some([document |-> document, result |-> result])
  /\ \E doc \in Afterwards(document) : Invoke(doc)
  /\ UNCHANGED <<unit, rev, family>>

\* The caller draws the document from the mixed family.
MixedInit == Init /\ family = "mixed"

AgainNext == Next \/ Again

AgainSpec == MixedInit /\ [][AgainNext]_vars

(***************************************************************************)
(* The loop of schema() runs on                                            *)
(***************************************************************************)
\* One iteration of the loop, or the return after it.
Iteration ==
  \/ SchemaDefinitionCase
  \/ DirectiveDefinitionCase
  \/ TypeDefinitionCase
  \/ SchemaExtensionCase
  \/ TypeExtensionCase
  \/ ExecutableCase
  \/ Return

\* schema() is synchronous: once called it goes on until it returns.
LoopSpec == MixedInit /\ [][Next]_vars /\ WF_vars(Iteration)

(***************************************************************************)
(* The normalizers called on their own                                     *)
(***************************************************************************)
\* The lists of at most MaxList elements of a pool.
Lists(pool) == UNION {[1..n -> pool] : n \in 0..MaxList}

\* An argument that may be undefined.
Optional(values) == {None} \cup {Some(v) : v \in values}

\* The values each normalizer is called with.
Arguments ==
  [directives |->
     Optional(Lists({DirA, DirB,
                     Dir("a", Some(<<Arg("x", "1"), Arg("x", "2")>>)),
                     Dir("b", Some(<<Arg("x", "1"), Arg("y", "2")>>)),
                     Dir("c", Some(<<Arg("toString", "1")>>))})),
   inputValuesDefinition |->
     Optional(Lists({InputValue("x", "Int"), InputValue("x", "String"),
                     InputValueWith("y", "Int", "0"), InputValue("X", "Int"),
                     InputValue("constructor", "Int")})),
   fieldsDefinition |->
     Lists({Field("hello", "String"), Field("hello", "Int"), Field("world", "Int"),
            FieldWith("world", "String", <<InputValue("x", "Int"), InputValue("x", "Int")>>)}),
   noDuplicate |-> Lists({"A", "B", "a", "valueOf"})]

\* The `on` label of the calls.
Label == <<"type ", "Foo", " definition">>

UnitInit ==
  /\ callee \in DOMAIN Arguments
  /\ input \in Arguments[callee]
  /\ output = Pending
  /\ previous = None
  /\ rev = "inline"
  /\ family = "root"
  /\ document = <<>>
  /\ i = 1
  /\ description = Undefined
  /\ rootOperationTypes = None
  /\ schemaDirectives = <<>>
  /\ directiveDefinitions = EmptyMap
  /\ typeDefinitions = EmptyMap
  /\ pc = "compose"
  /\ result = Pending
  /\ aliases = EmptyMap

\* The call returns r.
Returns(r) ==
  /\ output = Pending
  /\ output' = r
  /\ UNCHANGED <<callee, input, previous, rev, family, document, i, builder, pc, result,
                 aliases>>

directivesCall ==
  /\ callee = "directives"
  /\ Returns(directives(input, Label))

inputValuesDefinitionCall ==
  /\ callee = "inputValuesDefinition"
  /\ Returns(inputValuesDefinition(input, Label))

fieldsDefinitionCall ==
  /\ callee = "fieldsDefinition"
  /\ Returns(fieldsDefinition(input, Label))

noDuplicateCall ==
  /\ callee = "noDuplicate"
  /\ Returns(noDuplicate(input, Label))

UnitNext ==
  \/ directivesCall
  \/ inputValuesDefinitionCall
  \/ fieldsDefinitionCall
  \/ noDuplicateCall

UnitSpec == UnitInit /\ [][UnitNext]_vars

(***************************************************************************)
(* analyzeSchema as a function of the document                             *)
(***************************************************************************)
\* The locals of schema() (the SchemaContext of the context revision).
Builder(desc, rot, sdirs, dds, tds) ==
  [description |-> desc, rootOperationTypes |-> rot, schemaDirectives |-> sdirs,
   directiveDefinitions |-> dds, typeDefinitions |-> tds]

freshBuilder == Builder(Undefined, None, <<>>, EmptyMap, EmptyMap)

\* How the loop stands: the entry it is at, the locals, the Error raised.
Loop(at, b, isError, message) ==
  [at |-> at, b |-> b, isError |-> isError, message |-> message]

afterSchema(k, b, s) ==
  Loop(k, [b EXCEPT !.rootOperationTypes = s.rootOperationTypes,
                    !.description = s.description,
                    !.schemaDirectives = s.schemaDirectives],
       s.isError, s.message)

afterDirective(k, b, d) ==
  Loop(k, [b EXCEPT !.directiveDefinitions = d.val], d.isError,
       IF d.isError THEN d.message ELSE <<>>)

afterType(k, b, t) ==
  Loop(k, [b EXCEPT !.typeDefinitions = t.val], t.isError,
       IF t.isError THEN t.message ELSE <<>>)

afterExecutable(k, b, x) ==
  Loop(k, b, x.isError, IF x.isError THEN x.message ELSE <<>>)

\* One iteration of the loop, on the entry e at index k.
iteration(e, k, r, b) ==
  IF e.type = "executable" THEN afterExecutable(k, b, executable(r))
  ELSE IF IsDefinition(e, "schema")
  THEN afterSchema(k, b, schemaDefinition(e, r, b.rootOperationTypes, b.description,
                                          b.schemaDirectives))
  ELSE IF IsDefinition(e, "directive")
  THEN afterDirective(k, b, directiveDefinition(e, b.directiveDefinitions))
  ELSE IF IsDefinition(e, "type")
  THEN afterType(k, b, typeDefinition(e, b.typeDefinitions))
  ELSE IF IsExtension(e, "schema")
  THEN afterSchema(k, b, schemaExtension(e, r, b.rootOperationTypes, b.description,
                                         b.schemaDirectives))
  ELSE afterType(k, b, typeExtension(e, b.typeDefinitions))

\* for (const definition of document): the loop from entry k on; it ends at
\* the first Error or past the last entry.
RECURSIVE traverse(_, _, _, _)
RECURSIVE continued(_, _, _)
traverse(doc, k, r, b) ==
  IF k > Len(doc) THEN Loop(k, b, FALSE, <<>>)
  ELSE continued(doc, r, iteration(doc[k], k, r, b))

continued(doc, r, l) ==
  IF l.isError THEN l ELSE traverse(doc, l.at + 1, r, l.b)

\* What analyzeSchema returns when the loop ended as l.
returned(r, l) ==
  IF l.isError THEN Err(l.message)
  ELSE finalResult(r, l.b.rootOperationTypes, l.b.description, l.b.schemaDirectives,
                   l.b.directiveDefinitions, l.b.typeDefinitions)

\* analyzeSchema(document) in revision r.
analyzeSchema(doc, r) == returned(r, traverse(doc, 1, r, freshBuilder))

\* The run of the state machine returns what the function gives, and stops
\* where the function's loop stops, with the same locals.
RunIsAnalyzeSchema ==
  pc = "returned"
    => /\ result = analyzeSchema(document, rev)
       /\ traverse(document, 1, rev, freshBuilder).at = i
       /\ traverse(document, 1, rev, freshBuilder).b
            = Builder(description, rootOperationTypes, schemaDirectives,
                      directiveDefinitions, typeDefinitions)

(***************************************************************************)
(* Vocabulary of the properties                                            *)
(***************************************************************************)
Positions == 1..Len(document)

\* Entry j was taken by the loop and did not fail.
Accepted(j) == pc # "compose" /\ j < i

\* Entry j was taken by the loop (and accepted, or the analysis failed at it).
Processed(j) == pc # "compose" /\ (j < i \/ (j = i /\ pc = "returned"))

\* The analysis failed at entry j with message m.
FailedAt(j, m) == pc = "returned" /\ i = j /\ result = Err(m)

Succeeded == pc = "returned" /\ ~result.isError

Failed == pc = "returned" /\ result.isError

IsTypeDefinition(e) == IsDefinition(e, "type")

IsTypeExtension(e) == IsExtension(e, "type")

IsSchemaDefinition(e) == IsDefinition(e, "schema")

IsSchemaExtension(e) == IsExtension(e, "schema")

\* A type definition of name n stands before position j.
DefinedBefore(j, n) ==
  \E k \in 1..(j - 1) : IsTypeDefinition(document[k]) /\ document[k].name = n

\* The kind of the first type definition of name n before position j.
KindBefore(j, n) ==
  document[CHOOSE k \in 1..(j - 1) :
             /\ IsTypeDefinition(document[k]) /\ document[k].name = n
             /\ \A m \in 1..(k - 1) :
                  ~(IsTypeDefinition(document[m]) /\ document[m].name = n)].typeType

NoRepeat(seq) == \A a, b \in 1..Len(seq) : seq[a] = seq[b] => a = b

\* A type definition or a type extension of name n.
TypeEntry(e, n) == (IsTypeDefinition(e) \/ IsTypeExtension(e)) /\ e.name = n

\* The list a node gives under a key, empty when the node has none.
Listed(e, key) ==
  IF key \in DOMAIN e THEN OrElse(e[key], <<>>) ELSE <<>>

\* What the type definition and the type extensions of name n list under a
\* key in the first j entries of the document, in document order.
RECURSIVE Contributed(_, _, _)
Contributed(j, n, key) ==
  IF j = 0 THEN <<>>
  ELSE Contributed(j - 1, n, key)
         \o (IF TypeEntry(document[j], n) THEN Listed(document[j], key) ELSE <<>>)

\* The root operation type definitions an entry lists.
RootOpsOf(e) ==
  IF IsSchemaDefinition(e) THEN e.rootOperationTypeDefinitions
  ELSE IF IsSchemaExtension(e) THEN OrElse(e.rootOperationTypeDefinitions, <<>>)
  ELSE <<>>

\* The root operation type definitions of the first j entries, in order.
RECURSIVE RootBindings(_)
RootBindings(j) ==
  IF j = 0 THEN <<>> ELSE RootBindings(j - 1) \o RootOpsOf(document[j])

\* The values of one key of the records of a list.
Names(seq, key) == [k \in 1..Len(seq) |-> seq[k][key]]

\* The position of the first element of seq that repeats an earlier one.
FirstRepeat(seq) ==
  CHOOSE b \in 1..Len(seq) :
    /\ \E a \in 1..(b - 1) : seq[a] = seq[b]
    /\ \A c \in 1..(b - 1) : \A a \in 1..(c - 1) : seq[a] # seq[c]

DefinedNames == {document[j].name : j \in {k \in Positions : IsTypeDefinition(document[k])}}

SchemaDefinitionCount == Cardinality({j \in Positions : IsSchemaDefinition(document[j])})

(***************************************************************************)
(* C1                                                                      *)
(***************************************************************************)
\* The lists of name n are free of repeats over the definition and the
\* extensions of n together.
ListsDistinct(n) ==
  /\ NoRepeat(Contributed(Len(document), n, "implementsInterfaces"))
  /\ NoRepeat(Contributed(Len(document), n, "unionMemberTypes"))
  /\ NoRepeat(Names(Contributed(Len(document), n, "fieldsDefinition"), "name"))
  /\ NoRepeat(Names(Contributed(Len(document), n, "enumValuesDefinition"), "enumValue"))
  /\ NoRepeat(Names(Contributed(Len(document), n, "inputFieldsDefinition"), "name"))

\* The document violates no rule: one SchemaDefinition, only type-system
\* entries, distinct type names and distinct directive names, every type
\* extension after a definition of its name and kind, no operation kind
\* bound twice, no repeated field, value, member, interface, argument or
\* location.
LegalDocument ==
  /\ SchemaDefinitionCount = 1
  /\ \A j \in Positions : document[j].type = "typeSystem"
  /\ \A j, k \in Positions :
       (/\ IsTypeDefinition(document[j]) /\ IsTypeDefinition(document[k])
        /\ document[j].name = document[k].name) => j = k
  /\ \A j, k \in Positions :
       (/\ IsDefinition(document[j], "directive") /\ IsDefinition(document[k], "directive")
        /\ document[j].name = document[k].name) => j = k
  /\ \A j \in Positions :
       IsTypeExtension(document[j])
         => /\ DefinedBefore(j, document[j].name)
            /\ KindBefore(j, document[j].name) = document[j].typeType
  /\ NoRepeat(Names(RootBindings(Len(document)), "operationType"))
  /\ \A n \in DefinedNames : ListsDistinct(n)
  /\ \A j \in Positions :
       IsDefinition(document[j], "directive")
         => /\ NoRepeat(document[j].directiveLocations)
            /\ NoRepeat(Names(OrElse(document[j].argumentsDefinition, <<>>), "name"))

\* The map m has one entry per record of the list, under the record's key,
\* with the record's type.
HoldsAll(m, seq, key) ==
  /\ DOMAIN m = {seq[k][key] : k \in 1..Len(seq)}
  /\ \A k \in 1..Len(seq) : "type" \in DOMAIN seq[k] => m[seq[k][key]].type = seq[k].type

\* The entry td is the definition of n with every extension of n applied.
BasePlusExtensions(td, n) ==
  /\ td.name = n
  /\ td.type = KindBefore(Len(document) + 1, n)
  /\ Names(td.directives, "name") = Names(Contributed(Len(document), n, "directives"), "name")
  /\ td.type \in {"object", "interface"}
       => /\ td.implementsInterfaces = Contributed(Len(document), n, "implementsInterfaces")
          /\ HoldsAll(td.fieldsDefinition, Contributed(Len(document), n, "fieldsDefinition"),
                      "name")
  /\ td.type = "union"
       => td.unionMemberTypes = Contributed(Len(document), n, "unionMemberTypes")
  /\ td.type = "enum"
       => HoldsAll(td.enumValuesDefinition,
                   Contributed(Len(document), n, "enumValuesDefinition"), "enumValue")
  /\ td.type = "inputObject"
       => HoldsAll(td.inputFieldsDefinition,
                   Contributed(Len(document), n, "inputFieldsDefinition"), "name")

\* C1: a document with exactly one SchemaDefinition, distinct type names and
\* distinct directive names that violates no other rule is analysed
\* successfully, and typeDefinitions has exactly one entry per defined name,
\* holding the definition plus every extension of the name in document order.
C1_LegalDocumentSucceeds ==
  (pc = "returned" /\ LegalDocument)
    => /\ Succeeded
       /\ DOMAIN result.typeDefinitions = DefinedNames
       /\ \A n \in DefinedNames : BasePlusExtensions(result.typeDefinitions[n], n)

\* The same for the documents whose SchemaDefinition precedes every
\* SchemaExtension and whose names are none of those an empty object inherits.
C1_DefinitionFirstOwnNames ==
  (/\ pc = "returned" /\ LegalDocument
   /\ \A j \in Positions : IsSchemaExtension(document[j])
        => \E k \in 1..(j - 1) : IsSchemaDefinition(document[k])
   /\ DefinedNames \cap ObjectPrototypeKeys = {}
   /\ \A n \in DefinedNames :
        \A k \in 1..Len(Contributed(Len(document), n, "fieldsDefinition")) :
          Contributed(Len(document), n, "fieldsDefinition")[k].name \notin ObjectPrototypeKeys)
    => /\ Succeeded
       /\ DOMAIN result.typeDefinitions = DefinedNames
       /\ \A n \in DefinedNames : BasePlusExtensions(result.typeDefinitions[n], n)

(***************************************************************************)
(* C2                                                                      *)
(***************************************************************************)
\* C2: a type extension for a name N that is processed when no type
\* definition of N stands before it in the document makes the analysis fail
\* at that entry with "Type extension before type definition for type N",
\* whatever follows it.
C2_ExtensionBeforeDefinition ==
  \A j \in Positions :
    (Processed(j) /\ IsTypeExtension(document[j]) /\ ~DefinedBefore(j, document[j].name))
      => FailedAt(j, <<"Type extension before type definition for type ",
                       document[j].name>>)

\* The same for the names an empty object does not inherit.
C2_ForOwnNames ==
  \A j \in Positions :
    (/\ Processed(j) /\ IsTypeExtension(document[j])
     /\ ~DefinedBefore(j, document[j].name)
     /\ document[j].name \notin ObjectPrototypeKeys)
      => FailedAt(j, <<"Type extension before type definition for type ",
                       document[j].name>>)

(***************************************************************************)
(* C3                                                                      *)
(***************************************************************************)
\* C3: a document of schema entries in which a SchemaExtension precedes the
\* single SchemaDefinition, no operation kind being bound twice, is analysed
\* successfully and rootOperationTypes holds the bindings of all of them.
C3_SchemaExtensionFirst ==
  (/\ pc = "returned"
   /\ Len(document) >= 2
   /\ \A j \in Positions : IsSchemaDefinition(document[j]) \/ IsSchemaExtension(document[j])
   /\ IsSchemaExtension(document[1])
   /\ SchemaDefinitionCount = 1
   /\ NoRepeat(Names(RootBindings(Len(document)), "operationType")))
    => /\ Succeeded
       /\ \A k \in 1..Len(RootBindings(Len(document))) :
            Get(result.rootOperationTypes, RootBindings(Len(document))[k].operationType)
              = RootBindings(Len(document))[k].type

(***************************************************************************)
(* C4                                                                      *)
(***************************************************************************)
\* C4: the analysis of a document without a SchemaDefinition entry, the
\* empty document included, returns the failure "No SchemaDefinition".
C4_NoSchemaDefinition ==
  (pc = "returned" /\ SchemaDefinitionCount = 0)
    => result = Err(<<"No SchemaDefinition">>)

(***************************************************************************)
(* C5                                                                      *)
(***************************************************************************)
\* C5 as stated: the analysis of a document with two SchemaDefinition
\* entries fails with "Multiple SchemaDefinition", and at most one
\* SchemaDefinition is accepted.
C5_AsStated ==
  /\ (pc = "returned" /\ SchemaDefinitionCount >= 2)
       => result = Err(<<"Multiple SchemaDefinition">>)
  /\ Cardinality({j \in Positions : Accepted(j) /\ IsSchemaDefinition(document[j])}) <= 1

\* C5: the analysis of a document with two SchemaDefinition entries fails;
\* it fails with "Multiple SchemaDefinition" at the second SchemaDefinition
\* when the loop reaches that entry, that is when no entry before it failed;
\* at most one SchemaDefinition is accepted.
C5_SecondSchemaDefinition ==
  /\ (pc = "returned" /\ SchemaDefinitionCount >= 2) => Failed
  /\ \A j \in Positions :
       (/\ Processed(j) /\ IsSchemaDefinition(document[j])
        /\ \E k \in 1..(j - 1) : IsSchemaDefinition(document[k]))
         => FailedAt(j, <<"Multiple SchemaDefinition">>)
  /\ Cardinality({j \in Positions : Accepted(j) /\ IsSchemaDefinition(document[j])}) <= 1

\* A second SchemaDefinition, reached after two accepted entries and rejected.
C5_Witness ==
  /\ pc = "returned" /\ i = 3 /\ Len(document) = 3
  /\ IsSchemaDefinition(document[1]) /\ IsSchemaDefinition(document[3])
  /\ result = Err(<<"Multiple SchemaDefinition">>)

(***************************************************************************)
(* C6                                                                      *)
(***************************************************************************)
\* The kinds bound by the first j entries.
BoundKinds(j) == Names(RootBindings(j), "operationType")

\* C6: a binding for an operation kind already bound, by the same list, by
\* the SchemaDefinition or by an earlier SchemaExtension, fails the analysis
\* at its entry with "Multiple RootOperationTypeDefinition for <kind>" (the
\* entry not being a second SchemaDefinition), and the slot of every binding
\* of the accepted entries holds the type name that binding gave it.
C6_SlotBoundOnce ==
  /\ \A j \in Positions :
       (/\ Processed(j)
        /\ IsSchemaDefinition(document[j]) \/ IsSchemaExtension(document[j])
        /\ ~(/\ IsSchemaDefinition(document[j])
             /\ \E k \in 1..(j - 1) : IsSchemaDefinition(document[k]))
        /\ ~NoRepeat(BoundKinds(j)))
         => FailedAt(j, <<"Multiple RootOperationTypeDefinition for ",
                          BoundKinds(j)[FirstRepeat(BoundKinds(j))]>>)
  /\ pc # "compose"
       => \A k \in 1..Len(RootBindings(i - 1)) :
            /\ rootOperationTypes.some
            /\ Get(rootOperationTypes.val, RootBindings(i - 1)[k].operationType)
                 = RootBindings(i - 1)[k].type

\* The same when a SchemaDefinition precedes every SchemaExtension.
C6_DefinitionFirst ==
  /\ \A j \in Positions :
       (/\ Processed(j)
        /\ IsSchemaDefinition(document[j]) \/ IsSchemaExtension(document[j])
        /\ ~(/\ IsSchemaDefinition(document[j])
             /\ \E k \in 1..(j - 1) : IsSchemaDefinition(document[k]))
        /\ \A m \in 1..j : IsSchemaExtension(document[m])
             => \E k \in 1..(m - 1) : IsSchemaDefinition(document[k])
        /\ ~NoRepeat(BoundKinds(j)))
         => FailedAt(j, <<"Multiple RootOperationTypeDefinition for ",
                          BoundKinds(j)[FirstRepeat(BoundKinds(j))]>>)
  /\ pc # "compose"
       => \A k \in 1..Len(RootBindings(i - 1)) :
            /\ rootOperationTypes.some
            /\ Get(rootOperationTypes.val, RootBindings(i - 1)[k].operationType)
                 = RootBindings(i - 1)[k].type

(***************************************************************************)
(* C7                                                                      *)
(***************************************************************************)
\* C7: a type definition whose name is that of a type definition processed
\* earlier fails at that entry with "Multiple TypeDefinition for <name>",
\* whatever the two kinds; nothing of it is built: the entry of that name
\* keeps the kind of the first definition.
C7_DuplicateTypeDefinition ==
  \A j \in Positions :
    (Processed(j) /\ IsTypeDefinition(document[j]) /\ DefinedBefore(j, document[j].name))
      => /\ FailedAt(j, <<"Multiple TypeDefinition for ", document[j].name>>)
         /\ document[j].name \in DOMAIN typeDefinitions
         /\ typeDefinitions[document[j].name].type = KindBefore(j, document[j].name)

\* Two definitions of one name and of different kinds, the second rejected.
C7_Witness ==
  /\ pc = "returned" /\ i = 2 /\ Len(document) >= 2
  /\ IsTypeDefinition(document[1]) /\ IsTypeDefinition(document[2])
  /\ document[1].name = document[2].name
  /\ document[1].typeType # document[2].typeType
  /\ result = Err(<<"Multiple TypeDefinition for ", document[2].name>>)

(***************************************************************************)
(* C8                                                                      *)
(***************************************************************************)
\* C8: a type extension whose kind differs from the kind of the existing
\* definition of its name fails at that entry with "Type extension for type
\* with different type <name>", for all kinds; an accepted extension has the
\* kind of the definition of its name, and the entry keeps that kind.
C8_KindMismatch ==
  \A j \in Positions :
    (Processed(j) /\ IsTypeExtension(document[j]) /\ DefinedBefore(j, document[j].name))
      => /\ document[j].typeType # KindBefore(j, document[j].name)
              => FailedAt(j, <<"Type extension for type with different type ",
                               document[j].name>>)
         /\ Accepted(j) => document[j].typeType = KindBefore(j, document[j].name)
         /\ typeDefinitions[document[j].name].type = KindBefore(j, document[j].name)

\* An extension of another kind than the definition, rejected.
C8_Witness ==
  /\ pc = "returned" /\ i = 2 /\ Len(document) >= 2
  /\ IsTypeDefinition(document[1]) /\ IsTypeExtension(document[2])
  /\ document[1].name = document[2].name
  /\ document[1].typeType = "enum" /\ document[2].typeType = "inputObject"
  /\ result = Err(<<"Type extension for type with different type ", document[2].name>>)

(***************************************************************************)
(* C9                                                                      *)
(***************************************************************************)
\* Entry j is an object or interface extension of a definition of its kind
\* whose interfaces repeat none of the accumulated ones.
FieldExtension(j) ==
  /\ IsTypeExtension(document[j])
  /\ document[j].typeType \in {"object", "interface"}
  /\ DefinedBefore(j, document[j].name)
  /\ KindBefore(j, document[j].name) = document[j].typeType
  /\ NoRepeat(Contributed(j, document[j].name, "implementsInterfaces"))

\* The fields of name n given by the first j entries.
FieldsUpTo(j, n) == Contributed(j, n, "fieldsDefinition")

\* The field map holds the first k fields of the list, each with its type.
FieldsPresent(fields, seq, k) ==
  \A a \in 1..k : /\ seq[a].name \in DOMAIN fields
                  /\ fields[seq[a].name].type = seq[a].type

FailedAtField(j) ==
  /\ pc = "returned" /\ i = j /\ result.isError
  /\ result.message[1] = "Multiple field definition on type "

\* C9: an object or interface extension whose field names are new is
\* accepted and the field map then holds the fields of the definition, of
\* the earlier extensions and of this one; an extension with a field name
\* of the definition or of an earlier extension fails as a duplicate field
\* definition and the existing fields keep their types.
C9_ExtensionFields ==
  \A j \in Positions :
    (Processed(j) /\ FieldExtension(j))
      => IF NoRepeat(Names(FieldsUpTo(j, document[j].name), "name"))
         THEN /\ Accepted(j)
              /\ FieldsPresent(typeDefinitions[document[j].name].fieldsDefinition,
                               FieldsUpTo(j, document[j].name),
                               Len(FieldsUpTo(j, document[j].name)))
         ELSE /\ FailedAtField(j)
              /\ FieldsPresent(typeDefinitions[document[j].name].fieldsDefinition,
                               FieldsUpTo(j, document[j].name),
                               Len(FieldsUpTo(j - 1, document[j].name)))

\* The same for the field names an empty object does not inherit.
C9_ForOwnNames ==
  \A j \in Positions :
    (/\ Processed(j) /\ FieldExtension(j)
     /\ \A k \in 1..Len(FieldsUpTo(j, document[j].name)) :
          FieldsUpTo(j, document[j].name)[k].name \notin ObjectPrototypeKeys)
      => IF NoRepeat(Names(FieldsUpTo(j, document[j].name), "name"))
         THEN /\ Accepted(j)
              /\ FieldsPresent(typeDefinitions[document[j].name].fieldsDefinition,
                               FieldsUpTo(j, document[j].name),
                               Len(FieldsUpTo(j, document[j].name)))
         ELSE /\ FailedAtField(j)
              /\ FieldsPresent(typeDefinitions[document[j].name].fieldsDefinition,
                               FieldsUpTo(j, document[j].name),
                               Len(FieldsUpTo(j - 1, document[j].name)))

(***************************************************************************)
(* C10                                                                     *)
(***************************************************************************)
\* The list of the entry td under a key is what the accepted entries of its
\* name list under it, in document order; after a failure it may hold the
\* names of the failed entry too, merged before the entry failed.
ListAccumulated(td, key) ==
  \/ td[key] = Contributed(i - 1, td.name, key)
  \/ /\ pc = "returned" /\ i <= Len(document)
     /\ td[key] = Contributed(i, td.name, key)

\* C10: at every point of the traversal, after a failure and in every
\* result, implementsInterfaces of each object and interface type and
\* unionMemberTypes of each union type hold no name twice, and they hold the
\* names of every accepted definition and extension: an entry that would
\* add a repeat, within its list or against the accumulated names, is not
\* accepted.
C10_NoRepeatedNames ==
  /\ \A n \in DOMAIN typeDefinitions :
       /\ typeDefinitions[n].type \in {"object", "interface"}
            => /\ NoRepeat(typeDefinitions[n].implementsInterfaces)
               /\ ListAccumulated(typeDefinitions[n], "implementsInterfaces")
       /\ typeDefinitions[n].type = "union"
            => /\ NoRepeat(typeDefinitions[n].unionMemberTypes)
               /\ ListAccumulated(typeDefinitions[n], "unionMemberTypes")
  /\ Succeeded => result.typeDefinitions = typeDefinitions
  /\ \A j \in Positions :
       (/\ Processed(j)
        /\ IsTypeDefinition(document[j]) \/ IsTypeExtension(document[j])
        /\ \/ ~NoRepeat(Contributed(j, document[j].name, "implementsInterfaces"))
           \/ ~NoRepeat(Contributed(j, document[j].name, "unionMemberTypes")))
         => Failed /\ i = j

\* `type Foo implements A` then `extend type Foo implements A`: the
\* extension is rejected and the list is the one of the definition.
C10_Witness ==
  /\ pc = "returned" /\ i = 2 /\ Len(document) >= 2 /\ result.isError
  /\ IsTypeDefinition(document[1]) /\ document[1].typeType = "object"
  /\ IsTypeExtension(document[2]) /\ document[2].typeType = "object"
  /\ document[1].name = document[2].name
  /\ document[1].implementsInterfaces = Some(<<"A">>)
  /\ document[2].implementsInterfaces = Some(<<"A">>)
  /\ typeDefinitions[document[1].name].implementsInterfaces = <<"A">>

(***************************************************************************)
(* C11                                                                     *)
(***************************************************************************)
\* C11: an object or interface type definition that lists an interface
\* twice fails at its entry, and the message cites "implements on type "
\* followed by the name of the type.
C11_ImplementsNamesType ==
  \A j \in Positions :
    (/\ Processed(j) /\ IsTypeDefinition(document[j])
     /\ document[j].typeType \in {"object", "interface"}
     /\ ~DefinedBefore(j, document[j].name)
     /\ ~NoRepeat(Listed(document[j], "implementsInterfaces")))
      => FailedAt(j, <<"Duplicate ", "implements on type ", document[j].name>>)

(***************************************************************************)
(* C12                                                                     *)
(***************************************************************************)
\* The document with its entries j and j + 1 exchanged.
Swapped(j) ==
  [k \in 1..Len(document) |->
     IF k = j THEN document[j + 1] ELSE IF k = j + 1 THEN document[j] ELSE document[k]]

\* Entries j and j + 1 are object extensions of one type.
ObjectExtensionPair(j) ==
  /\ j + 1 <= Len(document)
  /\ IsTypeExtension(document[j]) /\ IsTypeExtension(document[j + 1])
  /\ document[j].typeType = "object" /\ document[j + 1].typeType = "object"
  /\ document[j].name = document[j + 1].name

FieldNamesOf(e) ==
  {Listed(e, "fieldsDefinition")[k].name : k \in 1..Len(Listed(e, "fieldsDefinition"))}

\* The loop over the document, and over the document with j, j + 1 exchanged.
Straight == traverse(document, 1, rev, freshBuilder)

Exchanged(j) == traverse(Swapped(j), 1, rev, freshBuilder)

\* Two loops end alike, and when they went through, with one field map for n.
SameFieldMap(a, b, n) ==
  /\ a.isError = b.isError
  /\ ~a.isError => a.b.typeDefinitions[n].fieldsDefinition
                     = b.b.typeDefinitions[n].fieldsDefinition

\* The loop l fails at entry k.
FailsAt(l, k) == l.isError /\ l.at = k

\* The loop l gets past entry k.
GetsPast(l, k) == ~l.isError \/ l.at > k

PrefixLoop(k) == traverse(SubSeq(document, 1, k), 1, rev, freshBuilder)

\* C13: when the processing of entry k fails, whatever follows entry k in
\* the document, the loop never goes beyond k, and analyzeSchema returns
\* that one failure, the Error with the message the document made of
\* entries 1..k alone gives, leaving the locals as that document leaves them.
C13_FirstFailureAborts ==
  \A k \in Positions :
    (pc # "compose" /\ FailsAt(PrefixLoop(k), k))
      => /\ i <= k
         /\ pc = "returned"
              => /\ i = k
                 /\ result = Err(PrefixLoop(k).message)
                 /\ DOMAIN result = {"isError", "message"}
                 /\ PrefixLoop(k).b = Builder(description, rootOperationTypes,
                                              schemaDirectives, directiveDefinitions,
                                              typeDefinitions)

\* A failure at the first of three entries, the second of which would fail
\* with another message in a document of its own.
C13_Witness ==
  /\ pc = "returned" /\ i = 1 /\ Len(document) = 3 /\ result.isError
  /\ analyzeSchema(SubSeq(document, 2, 3), rev).isError
  /\ analyzeSchema(SubSeq(document, 2, 3), rev) # result

(***************************************************************************)
(* C14                                                                     *)
(***************************************************************************)
SchemaKeys ==
  {"isError", "description", "rootOperationTypes", "schemaDirectives",
   "directiveDefinitions", "typeDefinitions"}

\* C14: analyzeSchema returns a success value, isError = false with the
\* whole Schema, or a failure value, isError = true with a message and
\* nothing else: no part of the locals, which a merge that failed midway
\* has already changed; every failure of an entry comes back as such a value.
C14_ResultContract ==
  pc = "returned"
    => /\ \/ /\ result.isError
             /\ DOMAIN result = {"isError", "message"}
             /\ Len(result.message) >= 1
          \/ /\ ~result.isError
             /\ DOMAIN result = SchemaKeys
             /\ result.typeDefinitions = typeDefinitions
             /\ result.directiveDefinitions = directiveDefinitions
             /\ result.schemaDirectives = schemaDirectives
             /\ result.description = description
       /\ \A k \in Positions : FailsAt(PrefixLoop(k), k) => result.isError

\* An extension that fails at its second field, the first already
\* inserted: the failure value shows nothing of it.
C14_Witness ==
  /\ pc = "returned" /\ i = 3 /\ Len(document) = 3 /\ result.isError
  /\ IsTypeExtension(document[3]) /\ document[3].typeType = "object"
  /\ document[3].name \in DOMAIN typeDefinitions
  /\ typeDefinitions[document[3].name].type = "object"
  /\ "extra" \in DOMAIN typeDefinitions[document[3].name].fieldsDefinition
  /\ DOMAIN result = {"isError", "message"}

(***************************************************************************)
(* C15                                                                     *)
(***************************************************************************)
\* C15: an entry that is an executable definition is never accepted: the
\* analysis fails at that entry instead of skipping it.
C15_ExecutableRejected ==
  \A j \in Positions :
    (Processed(j) /\ document[j].type = "executable")
      => /\ pc = "returned" /\ i = j /\ result.isError


(* C16 *)
\* What the result's rootOperationTypes gives for an operation kind.
BoundTo(kind) ==
  IF kind \in DOMAIN result.rootOperationTypes
  THEN result.rootOperationTypes[kind] ELSE Undefined

\* Every input value definition of a parsed list is in the map m under its
\* name, with the parsed type and defaultValue.
InputValuesKept(m, seq) ==
  \A k \in 1..Len(seq) :
    /\ seq[k].name \in DOMAIN m
    /\ m[seq[k].name].type = seq[k].type
    /\ m[seq[k].name].defaultValue = seq[k].defaultValue

\* Every field definition of a parsed list is in the map m under its name,
\* with the parsed type and the parsed arguments.
FieldsKept(m, seq) ==
  \A k \in 1..Len(seq) :
    /\ seq[k].name \in DOMAIN m
    /\ m[seq[k].name].type = seq[k].type
    /\ InputValuesKept(m[seq[k].name].argumentsDefinition,
                       OrElse(seq[k].argumentsDefinition, <<>>))

\* C16: in the schema of a successfully analysed document, each operation
\* kind the document binds maps to the type name the document gives (and no
\* other kind is bound), each type entry carries the kind of its definition,
\* and every field, input field and argument definition of the document is
\* stored with its parsed type and defaultValue.
C16_ParsedValuesKept ==
  Succeeded =>
    /\ \A kind \in {"query", "mutation", "subscription"} :
         LET bs == RootBindings(Len(document)) IN
           IF \E k \in 1..Len(bs) : bs[k].operationType = kind
           THEN \A k \in 1..Len(bs) :
                  bs[k].operationType = kind => BoundTo(kind) = bs[k].type
           ELSE BoundTo(kind) = Undefined
    /\ \A n \in DOMAIN result.typeDefinitions :
         /\ DefinedBefore(Len(document) + 1, n)
         /\ result.typeDefinitions[n].type = KindBefore(Len(document) + 1, n)
    /\ \A j \in Positions :
         /\ (TypeEntry(document[j], document[j].name)
               /\ document[j].typeType \in {"object", "interface"})
              => FieldsKept(result.typeDefinitions[document[j].name].fieldsDefinition,
                            OrElse(document[j].fieldsDefinition, <<>>))
         /\ (TypeEntry(document[j], document[j].name)
               /\ document[j].typeType = "inputObject")
              => InputValuesKept(
                   result.typeDefinitions[document[j].name].inputFieldsDefinition,
                   OrElse(document[j].inputFieldsDefinition, <<>>))
         /\ IsDefinition(document[j], "directive")
              => InputValuesKept(
                   result.directiveDefinitions[document[j].name].argumentsDefinition,
                   OrElse(document[j].argumentsDefinition, <<>>))

\* A schema whose interface Bar was extended with a second field and keeps
\* the argument n: Int = 1 of its first one.
C16_Witness ==
  /\ Succeeded
  /\ "Bar" \in DOMAIN result.typeDefinitions
  /\ result.typeDefinitions["Bar"].type = "interface"
  /\ {"hello", "world"} \subseteq DOMAIN result.typeDefinitions["Bar"].fieldsDefinition
  /\ result.typeDefinitions["Bar"].fieldsDefinition["hello"].argumentsDefinition["n"].defaultValue = "1"
  /\ BoundTo("query") = "Foo"


(* C17 *)
\* A directive application that gives two arguments the same name.
RepeatsArgument(d) == ~NoRepeat(Names(OrElse(d.arguments, <<>>), "name"))

\* C17: directives() fails exactly when one application of the list has two
\* arguments with the same name (never because two applications share a
\* directive name), and otherwise returns one Directive per application, in
\* the order of the list.
C17_DirectiveNormalizer ==
  (callee = "directives" /\ output # Pending) =>
    LET ds == OrElse(input, <<>>) IN
      /\ output.isError <=> \E k \in 1..Len(ds) : RepeatsArgument(ds[k])
      /\ ~output.isError =>
           /\ Len(output.val) = Len(ds)
           /\ \A k \in 1..Len(ds) : output.val[k].name = ds[k].name

(* C18 *)
\* C18: inputValuesDefinition() fails, with "Multiple argument <name> on ...",
\* exactly when two definitions of the list share a name, and otherwise
\* returns a map with one entry per name of the list.
C18_InputValueNormalizer ==
  (callee = "inputValuesDefinition" /\ output # Pending) =>
    LET names == Names(OrElse(input, <<>>), "name") IN
      /\ output.isError <=> ~NoRepeat(names)
      /\ output.isError =>
           output.message = <<"Multiple argument ", names[FirstRepeat(names)], " on ">>
                              \o Label
      /\ ~output.isError => DOMAIN output.val = SetOf(names)


(* C19 *)
\* Entry j is an enum type definition.
EnumDefinitionAt(j) == IsTypeDefinition(document[j]) /\ document[j].typeType = "enum"

\* The value names an enum node lists, in order.
ValuesOf(e) == Names(OrElse(e.enumValuesDefinition, <<>>), "enumValue")

\* `Duplicate enum value ${value} on ${name} definition`
DuplicateEnumValue(value, name) ==
  <<"Duplicate enum value ", value, " on ", name, " definition">>

C19_BothCasesKept ==
  /\ Succeeded
  /\ "Color" \in DOMAIN result.typeDefinitions
  /\ DOMAIN result.typeDefinitions["Color"].enumValuesDefinition = {"RED", "red"}


(* C20 *)
\* Entry j is an extension of kind `kind` of a type defined before it with
\* that kind.
ExtensionOf(j, kind) ==
  /\ IsTypeExtension(document[j])
  /\ document[j].typeType = kind
  /\ DefinedBefore(j, document[j].name)
  /\ KindBefore(j, document[j].name) = kind

\* The input field names an inputObject node lists, in order.
InputFieldsOf(e) == Names(OrElse(e.inputFieldsDefinition, <<>>), "name")

\* The names the definition and the extensions before entry j have put in
\* the map of the type entry j extends, followed by the names entry j lists.
ValuesWith(j) ==
  Names(Contributed(j - 1, document[j].name, "enumValuesDefinition"), "enumValue")
    \o ValuesOf(document[j])
InputFieldsWith(j) ==
  Names(Contributed(j - 1, document[j].name, "inputFieldsDefinition"), "name")
    \o InputFieldsOf(document[j])

\* An extension whose value or input field collides with the base
\* definition, with an earlier extension or within the extension fails.
CollisionFails ==
  \A j \in Positions :
    /\ (Processed(j) /\ ExtensionOf(j, "enum") /\ ~NoRepeat(ValuesWith(j))) =>
         \E v \in SetOf(ValuesOf(document[j])) :
           FailedAt(j, <<"Duplicate enum value ", v, " on ", document[j].name,
                         " extension">>)
    /\ (Processed(j) /\ ExtensionOf(j, "inputObject") /\ ~NoRepeat(InputFieldsWith(j))) =>
         \E n \in SetOf(InputFieldsOf(document[j])) :
           FailedAt(j, <<"Multiple argument ", n, " on type ", document[j].name,
                         " extension">>)

\* The map a type entry keeps its values or its input fields in.
NamedMap(td) ==
  IF td.type = "enum" THEN td.enumValuesDefinition
  ELSE IF td.type = "inputObject" THEN td.inputFieldsDefinition
  ELSE EmptyMap

\* A step leaves every enum value and every input field that exists as it is.
ExistingKept ==
  \A n \in DOMAIN typeDefinitions :
    /\ n \in DOMAIN typeDefinitions'
    /\ typeDefinitions'[n].type = typeDefinitions[n].type
    /\ \A v \in DOMAIN NamedMap(typeDefinitions[n]) :
         /\ v \in DOMAIN NamedMap(typeDefinitions'[n])
         /\ NamedMap(typeDefinitions'[n])[v] = NamedMap(typeDefinitions[n])[v]

\* C20: an enum extension value and an inputObject extension field go into
\* the accumulated map of the type only when the name is not there: a name
\* that collides with the base definition or with an earlier extension fails
\* the analysis, and no step replaces an existing value or input field.
C20_ExtensionInsertsOnlyAbsent == []CollisionFails /\ [][ExistingKept]_vars

\* extend enum Color { BLACK BLUE } after extend enum Color { BLUE }: BLACK
\* went in, BLUE collided with the earlier extension.
C20_Witness ==
  \E j \in Positions :
    /\ j >= 3
    /\ ExtensionOf(j, "enum")
    /\ ExtensionOf(j - 1, "enum")
    /\ document[j].name = document[j - 1].name
    /\ ValuesOf(document[j - 1]) = <<"BLUE">>
    /\ ValuesOf(document[j]) = <<"BLACK", "BLUE">>
    /\ FailedAt(j, <<"Duplicate enum value ", "BLUE", " on ", "Color", " extension">>)
    /\ "BLACK" \in DOMAIN typeDefinitions["Color"].enumValuesDefinition


(* C21 *)
\* Entry j is a directive definition.
DirectiveDefinitionAt(j) == IsDefinition(document[j], "directive")

\* A directive definition of name n stands before position j.
DirectiveDefinedBefore(j, n) ==
  \E k \in 1..(j - 1) : DirectiveDefinitionAt(k) /\ document[k].name = n

\* The argument names a directive definition lists, in order.
ArgumentsOf(e) == Names(OrElse(e.argumentsDefinition, <<>>), "name")

C21_SecondDefinitionRefused ==
  \E j \in Positions :
    /\ j >= 2
    /\ DirectiveDefinitionAt(j)
    /\ FailedAt(j, <<"Multiple DirectiveDefinition for ", "d">>)
    /\ DOMAIN directiveDefinitions["d"].locations = {"SCHEMA", "FIELD"}


(* C22 *)
\* The directive applications of the schema definitions and schema
\* extensions among the first j entries, in document order.
RECURSIVE SchemaDirectivesOf(_)
SchemaDirectivesOf(j) ==
  IF j = 0 THEN <<>>
  ELSE SchemaDirectivesOf(j - 1)
         \o (IF IsSchemaDefinition(document[j]) \/ IsSchemaExtension(document[j])
             THEN OrElse(document[j].directives, <<>>) ELSE <<>>)

\* C22: in a successful result schemaDirectives has one Directive for each
\* directive application of the SchemaDefinition and of the SchemaExtensions,
\* in document order, repeated names included; description is the one of the
\* SchemaDefinition (undefined when the document has none).
C22_SchemaDirectivesAndDescription ==
  Succeeded =>
    /\ Len(result.schemaDirectives) = Len(SchemaDirectivesOf(Len(document)))
    /\ \A k \in 1..Len(result.schemaDirectives) :
         directive(SchemaDirectivesOf(Len(document))[k], <<"schema definition">>)
           = Ok(result.schemaDirectives[k])
    /\ \A j \in Positions :
         IsSchemaDefinition(document[j]) => result.description = document[j].description
    /\ SchemaDefinitionCount = 0 => result.description = Undefined

\* schema "S" @a { query: Q } with extensions @a and @b(x: 1), in this order.
C22_Witness ==
  /\ Succeeded
  /\ Names(result.schemaDirectives, "name") = <<"a", "a", "b">>
  /\ result.description = "S"


NamedMaps == {"fieldsDefinition", "enumValuesDefinition", "inputFieldsDefinition"}

\* Every key of map m is a key of map n with the same entry.
Extends(n, m) == \A k \in DOMAIN m : k \in DOMAIN n /\ n[k] = m[k]

\* A step keeps every directive definition as it is (its argumentsDefinition
\* and locations with it), keeps every type entry under its name with its
\* name, kind and description, and keeps every field (its argumentsDefinition
\* with it), enum value and input field of every type entry as it is.
MapsOnlyGrow ==
  /\ Extends(directiveDefinitions', directiveDefinitions)
  /\ \A n \in DOMAIN typeDefinitions :
       /\ n \in DOMAIN typeDefinitions'
       /\ typeDefinitions'[n].name = typeDefinitions[n].name
       /\ typeDefinitions'[n].type = typeDefinitions[n].type
       /\ typeDefinitions'[n].description = typeDefinitions[n].description
       /\ \A key \in NamedMaps \cap DOMAIN typeDefinitions[n] :
            /\ key \in DOMAIN typeDefinitions'[n]
            /\ Extends(typeDefinitions'[n][key], typeDefinitions[n][key])

\* The names node e lists under a key, with the argument names of each of
\* its fields when the key is fieldsDefinition.
ListedNames(e, key, nameKey) == Names(Listed(e, key), nameKey)

\* A field of the node lists an argument name twice.
RepeatsFieldArgument(e) ==
  \E k \in 1..Len(Listed(e, "fieldsDefinition")) :
    ~NoRepeat(ListedNames(Listed(e, "fieldsDefinition")[k], "argumentsDefinition", "name"))

\* The node lists a name twice for one of the maps it fills.
RepeatsKey(e) ==
  \/ ~NoRepeat(ListedNames(e, "fieldsDefinition", "name"))
  \/ ~NoRepeat(ListedNames(e, "enumValuesDefinition", "enumValue"))
  \/ ~NoRepeat(ListedNames(e, "inputFieldsDefinition", "name"))
  \/ ~NoRepeat(ListedNames(e, "argumentsDefinition", "name"))
  \/ RepeatsFieldArgument(e)

\* The extension e lists a name that the map of the type entry td has.
ListsExisting(e, td) ==
  \/ /\ "fieldsDefinition" \in DOMAIN td
     /\ SetOf(ListedNames(e, "fieldsDefinition", "name")) \cap DOMAIN td.fieldsDefinition # {}
  \/ /\ "enumValuesDefinition" \in DOMAIN td
     /\ SetOf(ListedNames(e, "enumValuesDefinition", "enumValue"))
          \cap DOMAIN td.enumValuesDefinition # {}
  \/ /\ "inputFieldsDefinition" \in DOMAIN td
     /\ SetOf(ListedNames(e, "inputFieldsDefinition", "name"))
          \cap DOMAIN td.inputFieldsDefinition # {}

\* Processing node e would insert a key that one of the maps has already.
InsertsExisting(e) ==
  \/ IsDefinition(e, "directive")
       /\ (e.name \in DOMAIN directiveDefinitions \/ RepeatsKey(e))
  \/ IsTypeDefinition(e)
       /\ (e.name \in DOMAIN typeDefinitions \/ RepeatsKey(e))
  \/ IsTypeExtension(e)
       /\ e.name \in DOMAIN typeDefinitions
       /\ (RepeatsKey(e) \/ ListsExisting(e, typeDefinitions[e.name]))

\* The iteration that would insert an existing key ends the analysis with a
\* failure.
InsertionOverExistingFails ==
  (AtEntry /\ InsertsExisting(document[i])) => (pc' = "returned" /\ result'.isError)

\* C24: during a traversal every named map only grows: a key that is present
\* keeps its entry, no definition overwrites it and nothing removes it, and
\* the iteration that would insert an existing key fails the analysis.
C24_MapsOnlyGrow == [][MapsOnlyGrow /\ InsertionOverExistingFails]_vars

\* A second definition of directive d was refused and the entry of d is the
\* one the first definition made.
C24_Witness ==
  /\ Failed
  /\ i \in Positions
  /\ IsDefinition(document[i], "directive")
  /\ document[i].name \in DOMAIN directiveDefinitions
  /\ \E j \in 1..(i - 1) :
       /\ IsDefinition(document[j], "directive")
       /\ document[j].name = document[i].name
       /\ document[j] # document[i]
       /\ DOMAIN directiveDefinitions[document[i].name].locations
            = SetOf(document[j].directiveLocations)


(* C25 *)
\* List s starts with list t.
StartsWith(s, t) == Len(t) <= Len(s) /\ SubSeq(s, 1, Len(t)) = t

\* In a successful result the directives of every type are, one by one, the
\* directive applications of its definition followed by those of its
\* extensions in document order.
DirectivesInDocumentOrder ==
  Succeeded =>
    \A n \in DOMAIN result.typeDefinitions :
      /\ Len(result.typeDefinitions[n].directives)
           = Len(Contributed(Len(document), n, "directives"))
      /\ \A k \in 1..Len(result.typeDefinitions[n].directives) :
           directive(Contributed(Len(document), n, "directives")[k], <<>>)
             = Ok(result.typeDefinitions[n].directives[k])

\* A step leaves the directives a type entry has at the front of its list,
\* in their order.
DirectivesKept ==
  \A n \in DOMAIN typeDefinitions :
    /\ n \in DOMAIN typeDefinitions'
    /\ StartsWith(typeDefinitions'[n].directives, typeDefinitions[n].directives)

\* C25: the directives of a type in a successful result are those of its
\* definition followed by those of each of its extensions in document order;
\* an extension appends to the list and neither removes nor reorders what
\* the list has.
C25_TypeDirectivesAppend == []DirectivesInDocumentOrder /\ [][DirectivesKept]_vars

\* A type whose definition has @a and whose extension added @b(x: 1).
C25_Witness ==
  /\ Succeeded
  /\ \E j \in Positions :
       /\ IsTypeExtension(document[j])
       /\ OrElse(document[j].directives, <<>>) = <<DirB>>
       /\ document[j].name \in DOMAIN result.typeDefinitions
       /\ Names(result.typeDefinitions[document[j].name].directives, "name") = <<"a", "b">>


(* C26 *)
\* C26: noDuplicate fails, with a message that starts with "Duplicate ",
\* exactly when a name occurs more than once in the list, next to its first
\* occurrence or not; otherwise it returns the list as it is.
C26_UniquenessValidator ==
  (callee = "noDuplicate" /\ output # Pending) =>
    /\ output.isError <=> ~NoRepeat(input)
    /\ output.isError => output.message = <<"Duplicate ">> \o Label
    /\ ~output.isError => output.val = input

\* A list refused for a name that comes back after another name.
C26_Witness ==
  /\ callee = "noDuplicate"
  /\ output # Pending
  /\ output.isError
  /\ Len(input) = 3
  /\ input[1] = input[3]
  /\ input[1] # input[2]


(* C27 *)
\* The incremental check: the new names are pairwise distinct and none of
\* them is among the accumulated ones.
Incremental(old, new) == NoRepeat(new) /\ SetOf(new) \cap SetOf(old) = {}

\* The loop is at an extension of a type that exists with the extension's
\* kind, one of `kinds`.
AtExtensionOf(kinds) ==
  /\ AtEntry
  /\ IsTypeExtension(document[i])
  /\ document[i].typeType \in kinds
  /\ document[i].name \in DOMAIN typeDefinitions
  /\ typeDefinitions[document[i].name].type = document[i].typeType

\* C27: whenever an object, interface or union extension is about to be
\* processed, the accumulated list of the type has no repeated name, and
\* the re-validation of the whole concatenated list rejects the extension
\* exactly when the incremental check of the extension's names against the
\* accumulated ones does.
C27_RevalidationIsIncremental ==
  /\ AtExtensionOf({"object", "interface"}) =>
       /\ NoRepeat(typeDefinitions[document[i].name].implementsInterfaces)
       /\ mergeInterfaces(typeDefinitions[document[i].name], document[i]).isError
            <=> ~Incremental(typeDefinitions[document[i].name].implementsInterfaces,
                             OrElse(document[i].implementsInterfaces, <<>>))
  /\ AtExtensionOf({"union"}) =>
       /\ NoRepeat(typeDefinitions[document[i].name].unionMemberTypes)
       /\ mergeMembers(typeDefinitions[document[i].name], document[i]).isError
            <=> ~Incremental(typeDefinitions[document[i].name].unionMemberTypes,
                             OrElse(document[i].unionMemberTypes, <<>>))

\* An extension that repeats a name an earlier extension added is about to
\* be processed.
C27_Witness ==
  /\ AtExtensionOf({"object", "interface"})
  /\ i >= 3
  /\ typeDefinitions[document[i].name].implementsInterfaces = <<"A", "B">>
  /\ OrElse(document[i].implementsInterfaces, <<>>) = <<"B", "A">>


(* C28 *)
\* Entry j is an object or interface type definition.
ImplementingDefinitionAt(j) ==
  IsTypeDefinition(document[j]) /\ document[j].typeType \in {"object", "interface"}

C28_BareStored ==
  /\ pc = "loop"
  /\ "Bare" \in DOMAIN typeDefinitions
  /\ typeDefinitions["Bare"].fieldsDefinition = EmptyMap
  /\ typeDefinitions["Bare"].implementsInterfaces = <<>>


(* C29 *)
\* Once called, analyzeSchema returns.
Terminates == (pc = "loop") ~> (pc = "returned")

\* A step of the loop takes the entry the loop is at and goes to the next
\* one, or ends the loop where it is; the document stays as it is.
OneEntryPerStep ==
  pc = "loop" =>
    /\ document' = document
    /\ \/ pc' = "loop" /\ i \in Positions /\ i' = i + 1
       \/ pc' = "returned" /\ i' = i

\* analyzeSchema has returned at the entry that failed, or after the last
\* entry.
EndsAtFailureOrEnd ==
  pc = "returned" =>
    \/ i = Len(document) + 1
    \/ i \in Positions /\ result.isError

\* C29: analyzeSchema returns for every document, after one pass: every step
\* of the loop takes the next entry in document order, no entry is taken
\* twice, and the analysis ends at the first failure or after the last entry.
C29_SinglePassTerminates ==
  /\ Terminates
  /\ [][OneEntryPerStep]_vars
  /\ []EndsAtFailureOrEnd

\* A document of three entries was analysed to its end.
C29_Witness ==
  /\ pc = "returned"
  /\ Len(document) >= 3
  /\ i = Len(document) + 1
  /\ ~result.isError


(* C30 *)
\* The step is a type extension that succeeds.
TypeExtensionSucceeds == AtEntry /\ IsTypeExtension(document[i]) /\ pc' = "loop"

\* C30: a type extension for name N that succeeds changes nothing but the
\* entry of N: the entry keeps the name, the kind and the description of the
\* definition of N, every other type entry stays as it is and none is added
\* or removed, and the directive definitions, the root operation types, the
\* schema description and the schema directives stay as they are.
ExtensionChangesOnlyItsEntry ==
  TypeExtensionSucceeds =>
    /\ document[i].name \in DOMAIN typeDefinitions
    /\ DOMAIN typeDefinitions' = DOMAIN typeDefinitions
    /\ \A n \in DOMAIN typeDefinitions \ {document[i].name} :
         typeDefinitions'[n] = typeDefinitions[n]
    /\ \E k \in 1..(i - 1) :
         /\ IsTypeDefinition(document[k])
         /\ document[k].name = document[i].name
         /\ typeDefinitions'[document[i].name].name = document[k].name
         /\ typeDefinitions'[document[i].name].type = document[k].typeType
         /\ typeDefinitions'[document[i].name].description = document[k].description
    /\ UNCHANGED <<directiveDefinitions, rootOperationTypes, description,
                   schemaDirectives>>

C30_ExtensionFrame == [][ExtensionChangesOnlyItsEntry]_vars

\* An extension of Foo added the field world while another type was there:
\* Foo keeps its description.
C30_Witness ==
  /\ pc = "loop"
  /\ i >= 4
  /\ IsTypeExtension(document[i - 1])
  /\ document[i - 1].name = "Foo"
  /\ Cardinality(DOMAIN typeDefinitions) >= 2
  /\ "Foo" \in DOMAIN typeDefinitions
  /\ typeDefinitions["Foo"].description = "d"
  /\ "world" \in DOMAIN typeDefinitions["Foo"].fieldsDefinition

(***************************************************************************)
(* C31                                                                     *)
(***************************************************************************)
\* The entry of type n holds a list made by the analyzer, not a node's array.
OwnList(n) == n \notin DOMAIN aliases

\* A step of schema() leaves the document as it was given.
InputKept == pc = "loop" => document' = document

\* An array of a node that an entry holds is the array as the node has it:
\* nothing was written to it.
SharedAsGiven ==
  \A n \in DOMAIN aliases :
    /\ aliases[n] \in 1..Len(document)
    /\ n \in DOMAIN typeDefinitions
    /\ document[aliases[n]][ListKey(typeDefinitions[n])]
         = Some(typeDefinitions[n][ListKey(typeDefinitions[n])])

\* C31: analyzeSchema never modifies its input document, on success and on
\* failure.  The interface and member lists of a definition are stored as
\* the node's own arrays (noDuplicate returns its argument), and an extension
\* assigns a new concatenation instead of writing to them: every step of
\* schema(), the failing one included, leaves the document equal to what it
\* was, and an entry that still holds a node's array holds it unwritten.
C31_InputNeverModified == [][InputKept]_vars /\ []SharedAsGiven

\* An object or interface whose definition names an interface was extended
\* by one more interface: the entry lists both, the node lists its own.
C31_Witness ==
  /\ pc = "returned"
  /\ \E j \in 1..Len(document) : \E k \in (j + 1)..Len(document) :
       /\ IsTypeDefinition(document[j])
       /\ document[j].typeType \in {"object", "interface"}
       /\ document[j].implementsInterfaces.some
       /\ IsTypeExtension(document[k])
       /\ document[k].name = document[j].name
       /\ document[k].typeType = document[j].typeType
       /\ document[k].implementsInterfaces.some
       /\ document[j].name \in DOMAIN typeDefinitions
       /\ OwnList(document[j].name)
       /\ Len(typeDefinitions[document[j].name].implementsInterfaces)
            > Len(document[j].implementsInterfaces.val)

(***************************************************************************)
(* C32                                                                     *)
(***************************************************************************)
\* The two messages of the checks made before the contents are looked at.
BeforeDefinition(definition) ==
  <<"Type extension before type definition for type ", definition.name>>

\* Entry j is an extension that names something its target already has: an
\* interface, a field, a member, a value or an input field.
RepeatsExisting(j) ==
  /\ document[j].name \in DOMAIN typeDefinitions
  /\ ListsExisting(document[j], typeDefinitions[document[j].name])

\* The order of the checks as the outcome shows it: no definition of the
\* name, then another kind, and only then a failure of the contents.
ChecksInOrder ==
  \A j \in Positions :
    (Processed(j) /\ IsTypeExtension(document[j]))
      => /\ (~DefinedBefore(j, document[j].name)
               /\ document[j].name \notin ObjectPrototypeKeys)
              => FailedAt(j, BeforeDefinition(document[j]))
         /\ (DefinedBefore(j, document[j].name)
               /\ document[j].typeType # KindBefore(j, document[j].name))
              => FailedAt(j, KindMismatch(document[j]))
         /\ (FailedAt(j, result.message)
               /\ result.message \notin {BeforeDefinition(document[j]),
                                         KindMismatch(document[j])})
              => /\ DefinedBefore(j, document[j].name)
                 /\ document[j].typeType = KindBefore(j, document[j].name)

\* The step of an extension whose target is missing or of another kind
\* leaves every type entry as it was.
NothingMergedBeforeKindCheck ==
  (/\ AtEntry
   /\ IsTypeExtension(document[i])
   /\ \/ document[i].name \notin DOMAIN typeDefinitions
      \/ typeDefinitions[document[i].name].type # document[i].typeType)
    => typeDefinitions' = typeDefinitions

\* C32: within one type extension the missing-definition check comes first,
\* then the kind check, then the content checks.  An extension of a name
\* without a definition fails as an extension before definition whatever it
\* holds (for names `{}` does not answer to by itself, see C34); an extension
\* of another kind than its target fails with the kind-mismatch message, also
\* when it repeats a field, interface, member, value or input field the
\* target has; a failure with any other message is one of an extension of
\* the kind of its target; and the step of an extension that fails one of
\* the first two checks merges nothing.
C32_CheckOrder == []ChecksInOrder /\ [][NothingMergedBeforeKindCheck]_vars

\* An object extension of the interface Bar that repeats its interface A and
\* its field hello: refused for its kind, Bar as it was defined.
C32_Witness ==
  /\ pc = "returned" /\ i = 2 /\ Len(document) >= 2
  /\ IsTypeDefinition(document[1]) /\ document[1].typeType = "interface"
  /\ IsTypeExtension(document[2]) /\ document[2].typeType = "object"
  /\ document[2].name = document[1].name
  /\ document[2].implementsInterfaces = Some(<<"A">>)
  /\ document[2].fieldsDefinition.some
  /\ document[2].fieldsDefinition.val[1].name = "hello"
  /\ RepeatsExisting(2)
  /\ typeDefinitions[document[1].name].implementsInterfaces = <<"A">>
  /\ DOMAIN typeDefinitions[document[1].name].fieldsDefinition = {"hello"}
  /\ typeDefinitions[document[1].name].directives = <<>>
  /\ result = Err(KindMismatch(document[2]))

(***************************************************************************)
(* C33                                                                     *)
(***************************************************************************)
\* Every entry of the document is a type-system entry.
TypeSystemOnly == \A j \in Positions : document[j].type = "typeSystem"

\* A SchemaDefinition comes before every SchemaExtension.
DefinitionBeforeExtensions ==
  \A j \in Positions :
    IsSchemaExtension(document[j])
      => \E k \in 1..(j - 1) : IsSchemaDefinition(document[k])

\* The revision that does not run.
OtherRevision == IF rev = "inline" THEN "context" ELSE "inline"

\* The bindings of a mapping: a slot holding undefined binds nothing.
Bindings(rot) == [k \in {x \in DOMAIN rot : rot[x] # Undefined} |-> rot[k]]

\* Two return values are the same: failures with one message, or schemas
\* equal in every part, the root operation types compared by their bindings.
SameResult(a, b) ==
  IF a.isError \/ b.isError
  THEN a.isError /\ b.isError /\ a.message = b.message
  ELSE [a EXCEPT !.rootOperationTypes = Bindings(@)]
         = [b EXCEPT !.rootOperationTypes = Bindings(@)]

\* C33: the inline revision (src/src/index.ts) and the context revision
\* (src/unnamed/part_000) return the same result, a success with an equal
\* schema or a failure with an equal message, for every document made of
\* type-system entries only in which a SchemaDefinition precedes every
\* SchemaExtension.
C33_RevisionsAgree ==
  (pc = "returned" /\ TypeSystemOnly /\ DefinitionBeforeExtensions)
    => SameResult(result, analyzeSchema(document, OtherRevision))

\* The two revisions agree on the documents of C33 that hold a
\* SchemaDefinition or fail before their end.
C33_WithSchemaDefinition ==
  (/\ pc = "returned" /\ TypeSystemOnly /\ DefinitionBeforeExtensions
   /\ \/ \E j \in Positions : IsSchemaDefinition(document[j])
      \/ i <= Len(document))
    => SameResult(result, analyzeSchema(document, OtherRevision))

\* A document of C33 with a SchemaDefinition, an extension of it and a type,
\* analysed successfully.
C33_Agreement ==
  /\ Succeeded /\ TypeSystemOnly /\ DefinitionBeforeExtensions
  /\ \E j \in Positions : IsSchemaExtension(document[j])
  /\ \E j \in Positions : IsTypeDefinition(document[j])
  /\ SameResult(result, analyzeSchema(document, OtherRevision))

(***************************************************************************)
(* C34                                                                     *)
(***************************************************************************)
\* The analysis failed at entry j with a message that starts with head.
FailedWith(j, head) ==
  pc = "returned" /\ i = j /\ result.isError /\ result.message[1] = head

\* Name v is listed twice in seq.
ListedTwice(seq, v) ==
  \E a \in 1..Len(seq) : \E b \in (a + 1)..Len(seq) : seq[a] = v /\ seq[b] = v

\* What is reported at entry j is there: a duplicate type or directive has an
\* earlier definition, a duplicate enum value is listed twice, a duplicate
\* field of an extension is listed twice or is a field of the type, and an
\* extension of a name without a definition is reported as one.  The names in
\* exempt are left out.
ReportedIsThere(j, exempt) ==
  /\ (IsTypeDefinition(document[j]) /\ document[j].name \notin exempt
        /\ FailedAt(j, <<"Multiple TypeDefinition for ", document[j].name>>))
       => DefinedBefore(j, document[j].name)
  /\ (DirectiveDefinitionAt(j) /\ document[j].name \notin exempt
        /\ FailedAt(j, <<"Multiple DirectiveDefinition for ", document[j].name>>))
       => DirectiveDefinedBefore(j, document[j].name)
  /\ (IsTypeExtension(document[j]) /\ document[j].name \notin exempt
        /\ Processed(j) /\ ~DefinedBefore(j, document[j].name))
       => FailedAt(j, <<"Type extension before type definition for type ",
                        document[j].name>>)
  /\ (EnumDefinitionAt(j) /\ FailedWith(j, "Duplicate enum value ")
        /\ result.message[2] \notin exempt)
       => ListedTwice(ValuesOf(document[j]), result.message[2])
  /\ (IsTypeExtension(document[j]) /\ FailedWith(j, "Multiple field definition on type ")
        /\ SetOf(ListedNames(document[j], "fieldsDefinition", "name")) \cap exempt = {})
       => \/ RepeatsKey(document[j])
          \/ ListsExisting(document[j], typeDefinitions[document[j].name])

\* C34: a name is reported as a duplicate, or found as the target of an
\* extension, only when an entry with that name was inserted into the same
\* map earlier in the same analysis; the first definition of a name such as
\* constructor, toString or __proto__ is accepted, and an extension of such a
\* name without a definition is reported as an extension before definition.
C34_OnlyInsertedNamesCollide == \A j \in Positions : ReportedIsThere(j, {})

\* The same for the names an empty object does not answer to by itself.
C34_ForOwnNames == \A j \in Positions : ReportedIsThere(j, ObjectPrototypeKeys)

\* The single definition of the scalar constructor, refused as a duplicate.
C34_FirstDefinitionRefused ==
  /\ pc = "returned" /\ i = 1 /\ Len(document) = 1
  /\ IsTypeDefinition(document[1])
  /\ document[1].name \in ObjectPrototypeKeys
  /\ result = Err(<<"Multiple TypeDefinition for ", document[1].name>>)

(***************************************************************************)
(* C35                                                                     *)
(***************************************************************************)
\* The six kinds of type.
Kinds == {"scalar", "object", "interface", "union", "enum", "inputObject"}

\* Entry j is a type definition.
TypeDefinitionAt(j) == IsTypeDefinition(document[j])

\* The names of the type definitions and of the directive definitions the
\* loop has taken.
TypeNamesTaken ==
  {document[j].name : j \in {k \in Positions : Processed(k) /\ TypeDefinitionAt(k)}}
DirectiveNamesTaken ==
  {document[j].name : j \in {k \in Positions : Processed(k) /\ DirectiveDefinitionAt(k)}}

\* Each map holds the names of its own definitions only, and a type entry is
\* an entry of one of the six kinds.
MapsApart ==
  /\ DOMAIN typeDefinitions \subseteq TypeNamesTaken
  /\ DOMAIN directiveDefinitions \subseteq DirectiveNamesTaken
  /\ \A n \in DOMAIN typeDefinitions : typeDefinitions[n].type \in Kinds

\* A name collides with a name of its own map only, and an extension looks
\* for its target among the types only (names `{}` answers to by itself left
\* out, see C34).
CollidesInOwnMap(j) ==
  /\ (TypeDefinitionAt(j) /\ Processed(j) /\ ~DefinedBefore(j, document[j].name)
        /\ document[j].name \notin ObjectPrototypeKeys)
       => ~FailedAt(j, <<"Multiple TypeDefinition for ", document[j].name>>)
  /\ (DirectiveDefinitionAt(j) /\ Processed(j)
        /\ ~DirectiveDefinedBefore(j, document[j].name)
        /\ document[j].name \notin ObjectPrototypeKeys)
       => ~FailedAt(j, <<"Multiple DirectiveDefinition for ", document[j].name>>)
  /\ (IsTypeExtension(document[j]) /\ Processed(j)
        /\ ~DefinedBefore(j, document[j].name)
        /\ document[j].name \notin ObjectPrototypeKeys)
       => FailedAt(j, <<"Type extension before type definition for type ",
                        document[j].name>>)

\* C35: type names and directive names live in separate maps.  A directive
\* definition and a type definition that share a name do not conflict, in
\* either order, and a type extension never matches a directive definition
\* of its name: without a type definition before it, it fails as an
\* extension before definition.
C35_SeparateNamespaces ==
  /\ MapsApart
  /\ \A j \in Positions : CollidesInOwnMap(j)

\* The directive Foo and the scalar Foo, both accepted, and an extension of
\* the scalar merged: the analysis succeeds with Foo in both maps.
C35_Witness ==
  /\ Succeeded
  /\ \E n \in DOMAIN typeDefinitions \cap DOMAIN directiveDefinitions :
       /\ typeDefinitions[n].type = "scalar"
       /\ Len(typeDefinitions[n].directives) = 2
       /\ "FIELD" \in DOMAIN directiveDefinitions[n].locations

\* An extension of Foo after the directive Foo alone: no type to extend.
C35_DirectiveIsNoTarget ==
  /\ pc = "returned" /\ i = 2 /\ Len(document) >= 2
  /\ DirectiveDefinitionAt(1)
  /\ IsTypeExtension(document[2]) /\ document[2].name = document[1].name
  /\ document[1].name \in DOMAIN directiveDefinitions
  /\ result = Err(<<"Type extension before type definition for type ", document[2].name>>)

====
